---- MODULE Spec2Model ----
(***************************************************************************)
(* Octopus-Dashboard: the time-range cache (ClientCache), the consumption  *)
(* fetch orchestration of OctopusApi, and the chart aggregation / gap      *)
(* detection of ConsumptionChart.                                          *)
(*                                                                         *)
(* Three specifications share the variables:                               *)
(*   Spec       the ClientCache API driven by arbitrary callers and a clock *)
(*   FetchSpec  OctopusApi.fetchAllConsumption over the cache and network   *)
(*   ChartSpec  ConsumptionChart's derived data for bounded inputs          *)
(***************************************************************************)
EXTENDS Integers, Sequences, FiniteSets, TLC

VARIABLES
  cache,      \* ClientCache.cache : Map<string, CacheItem>
  now,        \* Date.now(), milliseconds
  ticks,      \* number of clock advances so far (bounds the run)
  sets,       \* number of direct set/setDateRangeData calls so far (bounds the run)
  lastOp,     \* the last cache read made by a caller, with what it returned
  written,    \* history: per (baseKey, from, to), the last setDateRangeData not yet removed/cleared
  meters,     \* OctopusApi.electricityMeterPoints / gasMeterPoint: which meters exist
  call,       \* the fetchAllConsumption call in progress
  calls,      \* number of fetchAllConsumption calls started
  nreq,       \* number of network requests issued so far
  props,      \* ConsumptionChart props and the viewer's timezone
  view        \* what ConsumptionChart derived from props at its last render

vars == <<cache, now, ticks, sets, lastOp, written, meters, call, calls, nreq, props, view>>

cacheVars == <<cache, now, ticks, sets, lastOp, written>>
fetchVars == <<meters, call, calls, nreq>>
chartVars == <<props, view>>

(***************************************************************************)
(* Bounds of the model                                                     *)
(***************************************************************************)
MaxTicks == 3
MaxSets == 2
MaxCalls == 2
MaxFetchTicks == 1
MaxRequests == 4

(***************************************************************************)
(* Values                                                                  *)
(***************************************************************************)
\* JavaScript null / undefined
Null == [null |-> TRUE]

\* ttl argument left out by the caller
NoTtl == -1

\* Window boundaries as formatApiDate / toISOString print them
D0 == "2023-12-31T00:00:00.000Z"
D1 == "2024-01-01T00:00:00.000Z"
D2 == "2024-01-02T00:00:00.000Z"
D3 == "2024-01-03T00:00:00.000Z"
D4 == "2024-01-04T00:00:00.000Z"

DayMs == 24 * 60 * 60 * 1000

\* new Date(s).getTime() for the boundaries above, in milliseconds counted from D1
DateParse(s) ==
  CASE s = D0 -> 0 - DayMs
    [] s = D1 -> 0
    [] s = D2 -> DayMs
    [] s = D3 -> 2 * DayMs
    [] s = D4 -> 3 * DayMs

\* new Date(ms).toISOString() for the boundaries above
ToISOString(ms) ==
  CASE ms = 0 - DayMs -> D0
    [] ms = 0 -> D1
    [] ms = DayMs -> D2
    [] ms = 2 * DayMs -> D3
    [] ms = 3 * DayMs -> D4

(***************************************************************************)
(* ClientCache                                                             *)
(***************************************************************************)
\* this.config.ttl, set in the constructor; setTTL has no caller in the repository
config_ttl == 24 * 60 * 60 * 1000

EmptyMap == [k \in {} |-> Null]

MapSet(m, k, v) == [x \in (DOMAIN m) \cup {k} |-> IF x = k THEN v ELSE m[x]]

MapDelete(m, k) == [x \in (DOMAIN m) \ {k} |-> m[x]]

createDateRangeKey_DropsTo(key, from, to) == key \o "_" \o from

createDateRangeKey(key, from, to) == key \o "_" \o from \o "_" \o to

\* set(key, data, ttl): the ttl parameter is accepted and not used
set(c, key, data, ttl, t) == MapSet(c, key, [data |-> data, timestamp |-> t])

isExpired_AtTtl(item, t) == t - item.timestamp >= config_ttl

isExpired(item, t) == t - item.timestamp > config_ttl

\* get(key): the value returned and the store afterwards (an expired entry is deleted)
get_SweepsExpired(c, key, t) ==
  IF key \notin DOMAIN c
    THEN [value |-> Null, store |-> c]
    ELSE IF isExpired(c[key], t)
      THEN [value |-> Null,
            store |-> [x \in {k \in DOMAIN c : ~isExpired(c[k], t)} |-> c[x]]]
      ELSE [value |-> c[key].data, store |-> c]

get(c, key, t) ==
  IF key \notin DOMAIN c
    THEN [value |-> Null, store |-> c]
    ELSE IF isExpired(c[key], t)
      THEN [value |-> Null, store |-> MapDelete(c, key)]
      ELSE [value |-> c[key].data, store |-> c]

getDateRangeData(c, baseKey, from, to, t) == get(c, createDateRangeKey(baseKey, from, to), t)

setDateRangeData(c, baseKey, from, to, data, ttl, t) ==
  set(c, createDateRangeKey(baseKey, from, to), data, ttl, t)

clear(c) == EmptyMap

remove(c, key) == MapDelete(c, key)

(***************************************************************************)
(* OctopusApi constants                                                    *)
(***************************************************************************)
CACHE_KEYS ==
  [ ACCOUNT_INFO |-> "account_info",
    METERS |-> "meters",
    CONSUMPTION_IMPORT |-> "consumption_import",
    CONSUMPTION_EXPORT |-> "consumption_export",
    CONSUMPTION_GAS |-> "consumption_gas" ]

CACHE_TTL ==
  [ ACCOUNT_INFO |-> 24 * 60 * 60 * 1000,
    METERS |-> 24 * 60 * 60 * 1000,
    TARIFF |-> 12 * 60 * 60 * 1000,
    CONSUMPTION |-> 30 * 60 * 1000 ]

(***************************************************************************)
(* Callers of the cache API (specification Spec)                           *)
(***************************************************************************)
PlainKeys == {CACHE_KEYS.METERS}

\* (baseKey, from, to): one series over a window, its sub-window, and another series
Triples ==
  { <<CACHE_KEYS.CONSUMPTION_IMPORT, D1, D3>>,
    <<CACHE_KEYS.CONSUMPTION_IMPORT, D1, D2>>,
    <<CACHE_KEYS.CONSUMPTION_GAS, D1, D3>> }

\* The one composite key callers pass to remove(key) literally, and the triple it names
RemovableRangeKey == "consumption_import_2024-01-01T00:00:00.000Z_2024-01-03T00:00:00.000Z"
RemovableTriple == <<CACHE_KEYS.CONSUMPTION_IMPORT, D1, D3>>

DataValues == {[v |-> "v1"], [v |-> "v2"]}

TtlArgs == {NoTtl, CACHE_TTL.CONSUMPTION}

TickDeltas == {1, CACHE_TTL.CONSUMPTION, config_ttl}

NoOp == [op |-> "none"]

NothingWritten == [tr \in Triples |-> Null]

Tick ==
  /\ ticks < MaxTicks
  /\ \E d \in TickDeltas : now' = now + d
  /\ ticks' = ticks + 1
  /\ lastOp' = NoOp
  /\ UNCHANGED <<cache, sets, written>>

CacheSet ==
  /\ sets < MaxSets
  /\ \E key \in PlainKeys, data \in DataValues, ttl \in TtlArgs :
       cache' = set(cache, key, data, ttl, now)
  /\ sets' = sets + 1
  /\ lastOp' = NoOp
  /\ UNCHANGED <<now, ticks, written>>

CacheGet ==
  /\ \E key \in PlainKeys :
       LET r == get(cache, key, now) IN
         /\ cache' = r.store
         /\ lastOp' = [op |-> "get", key |-> key, at |-> now, result |-> r.value]
  /\ UNCHANGED <<now, ticks, sets, written>>

CacheSetRange ==
  /\ sets < MaxSets
  /\ \E tr \in Triples, data \in DataValues, ttl \in TtlArgs :
       /\ cache' = setDateRangeData(cache, tr[1], tr[2], tr[3], data, ttl, now)
       /\ written' = [written EXCEPT ![tr] = [data |-> data, at |-> now, ttl |-> ttl]]
  /\ sets' = sets + 1
  /\ lastOp' = NoOp
  /\ UNCHANGED <<now, ticks>>

CacheGetRange ==
  /\ \E tr \in Triples :
       LET r == getDateRangeData(cache, tr[1], tr[2], tr[3], now) IN
         /\ cache' = r.store
         /\ lastOp' = [op |-> "getDateRangeData", triple |-> tr, at |-> now, result |-> r.value]
  /\ UNCHANGED <<now, ticks, sets, written>>

CacheRemove ==
  /\ \E key \in PlainKeys \cup {RemovableRangeKey} :
       /\ cache' = remove(cache, key)
       /\ written' = IF key = RemovableRangeKey
                       THEN [written EXCEPT ![RemovableTriple] = Null]
                       ELSE written
  /\ lastOp' = NoOp
  /\ UNCHANGED <<now, ticks, sets>>

CacheClear ==
  /\ cache' = clear(cache)
  /\ written' = NothingWritten
  /\ lastOp' = NoOp
  /\ UNCHANGED <<now, ticks, sets>>

CacheInit ==
  /\ cache = EmptyMap
  /\ now = 0
  /\ ticks = 0
  /\ sets = 0
  /\ lastOp = NoOp
  /\ written = NothingWritten

FetchIdle ==
  /\ meters = {}
  /\ call = [pc |-> "idle"]
  /\ calls = 0
  /\ nreq = 0

ChartIdle ==
  /\ props = Null
  /\ view = Null

Init == CacheInit /\ FetchIdle /\ ChartIdle

Next ==
  \/ Tick /\ UNCHANGED <<fetchVars, chartVars>>
  \/ CacheSet /\ UNCHANGED <<fetchVars, chartVars>>
  \/ CacheGet /\ UNCHANGED <<fetchVars, chartVars>>
  \/ CacheSetRange /\ UNCHANGED <<fetchVars, chartVars>>
  \/ CacheGetRange /\ UNCHANGED <<fetchVars, chartVars>>
  \/ CacheRemove /\ UNCHANGED <<fetchVars, chartVars>>
  \/ CacheClear /\ UNCHANGED <<fetchVars, chartVars>>

Spec == Init /\ [][Next]_vars

(***************************************************************************)
(* OctopusApi.fetchAllConsumption (specification FetchSpec)                *)
(***************************************************************************)
Types == {"import", "export", "gas"}

\* The consumption endpoint of each meter
Endpoint(type) ==
  CASE type = "import" -> "/electricity-meter-points/MPAN-IMPORT/meters/SERIAL/consumption/"
    [] type = "export" -> "/electricity-meter-points/MPAN-EXPORT/meters/SERIAL/consumption/"
    [] type = "gas" -> "/gas-meter-points/MPRN/meters/SERIAL/consumption/"

\* The cache key fetchAllConsumption passes for each meter
cacheKeyOf(type) ==
  CASE type = "import" -> CACHE_KEYS.CONSUMPTION_IMPORT
    [] type = "export" -> CACHE_KEYS.CONSUMPTION_EXPORT
    [] type = "gas" -> CACHE_KEYS.CONSUMPTION_GAS

\* periodLength, previousTo and previousFrom of fetchAllConsumption
previousTo(from, to) == ToISOString(DateParse(from))

previousFrom_SameStart(from, to) == from

previousFrom(from, to) ==
  ToISOString(DateParse(previousTo(from, to)) - (DateParse(to) - DateParse(from)))

\* The sub-fetches in the order fetchAllConsumption pushes them
PlannedTasks(ms, from, to, includePreviousPeriod) ==
  LET cur(ty) == [type |-> ty, period |-> "current", from |-> from, to |-> to]
      prev(ty) == [type |-> ty, period |-> "previous",
                   from |-> previousFrom(from, to), to |-> previousTo(from, to)]
      all == << cur("import"), prev("import"), cur("export"), prev("export"),
                cur("gas"), prev("gas") >>
      pushed(p) == p.type \in ms /\ (p.period = "current" \/ includePreviousPeriod)
  IN SelectSeq(all, pushed)

\* if (cachedData): a cached response is used when the lookup returned one
cacheHit_Never(cachedData) == FALSE

cacheHit(cachedData) == cachedData # Null

\* What the cache holds, unexpired, for (cacheKey, from, to) at time t
HeldUnexpired(c, cacheKey, from, to, t) ==
  LET k == cacheKey \o "_" \o from \o "_" \o to IN
    IF k \in DOMAIN c /\ t - c[k].timestamp <= config_ttl THEN c[k].data ELSE Null

\* fetchConsumptionForPeriod up to its first suspension: the cache lookup and,
\* on a miss, the request being sent. n is the number of requests sent before.
fetchConsumptionForPeriod(c, p, t, n) ==
  LET cacheKey == cacheKeyOf(p.type)
      r == getDateRangeData(c, cacheKey, p.from, p.to, t)
      base == [type |-> p.type, period |-> p.period, from |-> p.from, to |-> p.to,
               cacheKey |-> cacheKey, endpoint |-> Endpoint(p.type),
               cachedBefore |-> HeldUnexpired(c, cacheKey, p.from, p.to, t)]
  IN IF cacheHit(r.value)
       THEN [task |-> base @@ [state |-> "fulfilled", value |-> r.value, outcome |-> "hit",
                               requests |-> 0, reqId |-> 0],
             store |-> r.store, nreq |-> n]
       ELSE [task |-> base @@ [state |-> "pending", value |-> Null, outcome |-> "pending",
                               requests |-> 1, reqId |-> n + 1],
             store |-> r.store, nreq |-> n + 1]

\* The synchronous part of fetchAllConsumption: every sub-fetch is started in order
RECURSIVE IssueTasks(_, _, _, _, _, _)
IssueTasks(plan, i, c, t, n, acc) ==
  IF i > Len(plan)
    THEN [tasks |-> acc, store |-> c, nreq |-> n]
    ELSE LET s == fetchConsumptionForPeriod(c, plan[i], t, n)
         IN IssueTasks(plan, i + 1, s.store, t, s.nreq, Append(acc, s.task))

\* catch (error) { return null } in fetchConsumptionForPeriod
OnRequestFailure_Rethrows(task) ==
  [task EXCEPT !.state = "rejected", !.outcome = "failed"]

OnRequestFailure(task) ==
  [task EXCEPT !.state = "fulfilled", !.value = Null, !.outcome = "failed"]

\* tasks.findIndex(t => t.type === type && t.period === period); 0 stands for -1
findIndex_IgnoresPeriod(tasks, type, period) ==
  LET hits == {i \in 1..Len(tasks) : tasks[i].type = type} IN
    IF hits = {} THEN 0 ELSE CHOOSE i \in hits : \A j \in hits : i <= j

findIndex(tasks, type, period) ==
  LET hits == {i \in 1..Len(tasks) : tasks[i].type = type /\ tasks[i].period = period} IN
    IF hits = {} THEN 0 ELSE CHOOSE i \in hits : \A j \in hits : i <= j

\* results[index] || null
resultAt(tasks, type, period) ==
  LET i == findIndex(tasks, type, period) IN
    IF i = 0 THEN Null ELSE tasks[i].value

\* The response object fetchAllConsumption returns
assemble(tasks, includePreviousPeriod) ==
  [ currentPeriod |->
      [ importElectricity |-> resultAt(tasks, "import", "current"),
        exportElectricity |-> resultAt(tasks, "export", "current"),
        gas |-> resultAt(tasks, "gas", "current") ],
    previousPeriod |->
      IF includePreviousPeriod
        THEN [ importElectricity |-> resultAt(tasks, "import", "previous"),
               exportElectricity |-> resultAt(tasks, "export", "previous"),
               gas |-> resultAt(tasks, "gas", "previous") ]
        ELSE Null ]

\* Promise.all settles once every promise is fulfilled, or as soon as one is rejected
PromiseAllSettled_Any(tasks) ==
  tasks = << >> \/ \E i \in 1..Len(tasks) : tasks[i].state # "pending"

PromiseAllSettled(tasks) ==
  \/ \A i \in 1..Len(tasks) : tasks[i].state = "fulfilled"
  \/ \E i \in 1..Len(tasks) : tasks[i].state = "rejected"

\* The windows the dashboard asks for
FetchWindows == {<<D2, D3>>, <<D2, D4>>}

FetchTickDeltas == {CACHE_TTL.CONSUMPTION + 1, config_ttl, config_ttl + 1}

\* The clock advances between calls, and between a call and its first response
FetchTick ==
  /\ IF call.pc = "awaiting"
       THEN \A i \in 1..Len(call.tasks) : call.tasks[i].outcome \in {"hit", "pending"}
       ELSE TRUE
  /\ ticks < MaxFetchTicks
  /\ \E d \in FetchTickDeltas : now' = now + d
  /\ ticks' = ticks + 1
  /\ lastOp' = NoOp
  /\ UNCHANGED <<cache, sets, written, fetchVars>>

\* The (cacheKey, from, to) of the sub-fetches of a call that failed
failedTriples(c) ==
  IF c.pc = "idle" THEN {}
  ELSE { <<c.tasks[i].cacheKey, c.tasks[i].from, c.tasks[i].to>> :
           i \in {j \in 1..Len(c.tasks) : c.tasks[j].outcome = "failed"} }

\* fetchAllConsumption(from, to, includePreviousPeriod) is called
StartFetchAll ==
  /\ call.pc # "awaiting"
  /\ calls < MaxCalls
  /\ \E w \in FetchWindows, includePreviousPeriod \in BOOLEAN :
       LET plan == PlannedTasks(meters, w[1], w[2], includePreviousPeriod)
           s == IssueTasks(plan, 1, cache, now, nreq, << >>)
       IN /\ call' = [pc |-> "awaiting", from |-> w[1], to |-> w[2],
                      includePreviousPeriod |-> includePreviousPeriod,
                      startedAt |-> now, tasks |-> s.tasks, response |-> Null]
          /\ s.nreq <= MaxRequests
          /\ cache' = s.store
          /\ nreq' = s.nreq
  /\ calls' = calls + 1
  /\ lastOp' = [op |-> "called", failedBefore |-> failedTriples(call)]
  /\ UNCHANGED <<now, ticks, sets, written, meters>>

\* The response to a pending request arrives with a 2xx status
RespondOk ==
  /\ call.pc = "awaiting"
  /\ \E i \in 1..Len(call.tasks) :
       LET task == call.tasks[i]
           response == [endpoint |-> task.endpoint, period_from |-> task.from,
                        period_to |-> task.to, id |-> task.reqId]
       IN /\ task.state = "pending"
          /\ cache' = setDateRangeData(cache, task.cacheKey, task.from, task.to,
                                       response, NoTtl, now)
          /\ call' = [call EXCEPT !.tasks[i] =
                        [task EXCEPT !.state = "fulfilled", !.value = response,
                                     !.outcome = "ok"]]
          /\ lastOp' = [op |-> "stored", task |-> i, at |-> now]
  /\ UNCHANGED <<now, ticks, sets, written, meters, calls, nreq>>

\* A pending request fails: fetch rejects, or the status is not ok and request throws
RespondError_CachesNull ==
  /\ call.pc = "awaiting"
  /\ \E i \in 1..Len(call.tasks) :
       /\ call.tasks[i].state = "pending"
       /\ call' = [call EXCEPT !.tasks[i] = OnRequestFailure(call.tasks[i])]
       /\ cache' = setDateRangeData(cache, call.tasks[i].cacheKey, call.tasks[i].from,
                                    call.tasks[i].to, Null, NoTtl, now)
  /\ lastOp' = NoOp
  /\ UNCHANGED <<now, ticks, sets, written, meters, calls, nreq>>

RespondError ==
  /\ call.pc = "awaiting"
  /\ \E i \in 1..Len(call.tasks) :
       /\ call.tasks[i].state = "pending"
       /\ call' = [call EXCEPT !.tasks[i] = OnRequestFailure(call.tasks[i])]
  /\ lastOp' = NoOp
  /\ UNCHANGED <<cache, now, ticks, sets, written, meters, calls, nreq>>

\* await Promise.all(...) continues and the response object is built
Assemble ==
  /\ call.pc = "awaiting"
  /\ PromiseAllSettled(call.tasks)
  /\ call' = IF \E i \in 1..Len(call.tasks) : call.tasks[i].state = "rejected"
               THEN [call EXCEPT !.pc = "rejected"]
               ELSE [call EXCEPT !.pc = "resolved",
                       !.response = assemble(call.tasks, call.includePreviousPeriod)]
  /\ lastOp' = NoOp
  /\ UNCHANGED <<cache, now, ticks, sets, written, meters, calls, nreq>>

FetchInit ==
  /\ CacheInit
  /\ meters \in SUBSET Types
  /\ call = [pc |-> "idle"]
  /\ calls = 0
  /\ nreq = 0
  /\ ChartIdle

FetchNext ==
  \/ FetchTick /\ UNCHANGED chartVars
  \/ StartFetchAll /\ UNCHANGED chartVars
  \/ RespondOk /\ UNCHANGED chartVars
  \/ RespondError /\ UNCHANGED chartVars
  \/ Assemble /\ UNCHANGED chartVars

FetchSpec == FetchInit /\ [][FetchNext]_vars

(***************************************************************************)
(* ConsumptionChart (specification ChartSpec)                              *)
(*                                                                         *)
(* Instants are counted in half-hour slots of UTC; a reading covers one    *)
(* slot. A calendar date is a day number: format(d, 'yyyy-MM-dd') prints   *)
(* the date of d in the viewer's timezone, and these strings sort in date  *)
(* order, so the day number of the local date stands for the string.       *)
(***************************************************************************)
\* Half-hourly readings: 48 expected per day
SlotsPerDay == 48

\* A day needs at least this many readings to count as covered
MinReadings == 40

\* The later chart pads its series to this many days
ExpectedDays == 30

\* Days of readings in an input series
MaxDays == 3

\* The UTC day of the first slot of an input series
FirstDay == 10

\* Viewer timezone offsets from UTC, in half-hour slots (UTC, UTC+1, UTC-5)
TzOffsets == {0, 2, 0 - 10}

\* Readings a day of an input series may hold
CountChoices == {0, 39, 40, 48}

\* format(parseISO(s), 'yyyy-MM-dd'): the viewer-local date of an instant
dateKey(instant, tz) == (instant + tz) \div SlotsPerDay

\* The UTC date of an instant
utcDate(instant) == instant \div SlotsPerDay

\* A new array holding the n elements of f
Array(f, n) == SubSeq(f, 1, n)

\* count readings of one UTC day, at the start or at the end of the day
DayReadings(day, count, placement, unit) ==
  LET first == IF placement = "head" THEN 0 ELSE SlotsPerDay - count IN
    [i \in 1..count |->
       LET slot == day * SlotsPerDay + first + i - 1 IN
         [interval_start |-> slot, interval_end |-> slot + 1,
          consumption |-> unit * (1 + (slot % 2))]]

RECURSIVE SeriesOf(_, _, _, _, _)
SeriesOf(counts, firstDay, d, placement, unit) ==
  IF d > Len(counts) THEN << >>
  ELSE DayReadings(firstDay + d - 1, counts[d], placement, unit)
         \o SeriesOf(counts, firstDay, d + 1, placement, unit)

\* The API lists readings newest first
Reverse(s) == [i \in 1..Len(s) |-> s[Len(s) + 1 - i]]

\* Array.prototype.sort is a stable merge sort: two sorted runs are joined end
\* to end when they do not overlap, and interleaved by rank when they do
merge(a, b) ==
  IF a[Len(a)].key <= b[1].key THEN a \o b
  ELSE IF b[Len(b)].key < a[1].key THEN b \o a
  ELSE LET posA(i) == i + Cardinality({j \in 1..Len(b) : b[j].key < a[i].key})
           posB(j) == j + Cardinality({i \in 1..Len(a) : a[i].key <= b[j].key})
       IN Array([k \in 1..(Len(a) + Len(b)) |->
                   IF \E i \in 1..Len(a) : posA(i) = k
                     THEN a[CHOOSE i \in 1..Len(a) : posA(i) = k]
                     ELSE b[CHOOSE j \in 1..Len(b) : posB(j) = k]],
                Len(a) + Len(b))

RECURSIVE mergeSort(_, _, _)
mergeSort(tagged, lo, hi) ==
  IF lo > hi THEN << >>
  ELSE IF lo = hi THEN <<tagged[lo]>>
  ELSE LET mid == (lo + hi) \div 2 IN
         merge(mergeSort(tagged, lo, mid), mergeSort(tagged, mid + 1, hi))

\* [...data].sort((a, b) => new Date(a.interval_start) - new Date(b.interval_start))
sortedData(data) ==
  LET n == Len(data)
      s == mergeSort([i \in 1..n |-> [key |-> data[i].interval_start, item |-> data[i]]], 1, n)
  IN Array([i \in 1..n |-> s[i].item], n)

\* points.sort((a, b) => a.date.localeCompare(b.date))
sortByDate(points) ==
  LET n == Len(points)
      s == mergeSort([i \in 1..n |-> [key |-> points[i].date, item |-> points[i]]], 1, n)
  IN Array([i \in 1..n |-> s[i].item], n)

\* Array.from(map.keys()).sort() over a set of dates
RECURSIVE sortedKeys(_)
sortedKeys(S) ==
  IF S = {} THEN << >>
  ELSE LET m == CHOOSE d \in S : \A e \in S : d <= e IN <<m>> \o sortedKeys(S \ {m})

\* differenceInDays(endOfDay(lastDate), firstDate): whole days from the first
\* reading's start to the last millisecond of the local day of the last reading's end
daysDifference(sorted, tz) ==
  LET firstDate == sorted[1].interval_start
      lastDate == sorted[Len(sorted)].interval_end
      endOfLastDate == (dateKey(lastDate, tz) + 1) * SlotsPerDay - tz
  IN (endOfLastDate - firstDate - 1) \div SlotsPerDay

\* readingsPerDay: readings counted per local date
readingsPerDay(sorted, tz) ==
  LET keys == {dateKey(sorted[i].interval_start, tz) : i \in 1..Len(sorted)} IN
    [k \in keys |->
       Cardinality({i \in 1..Len(sorted) : dateKey(sorted[i].interval_start, tz) = k})]

\* readingsPerDay[date] || 0
readingsOn(perDay, date) == IF date \in DOMAIN perDay THEN perDay[date] ELSE 0

\* expectedDates of the gap scan: firstDate + i days for i = 0..daysDifference,
\* listed by Array.from(expectedDates.keys()).sort()
expectedDatesV1(sorted, tz) ==
  sortedKeys({dateKey(sorted[1].interval_start, tz) + i : i \in 0..daysDifference(sorted, tz)})

\* let lastGoodDate: string | null = null
NoDate == 0 - 1

\* if (readings < 40)
isGapDay_Below39(readings) == readings < MinReadings - 1

isGapDay(readings) == readings < MinReadings

\* A gap day with no zone open: a zone opens only when a good date was seen
newZone_FromGapDay(lastGoodDate, date) ==
  IF lastGoodDate # NoDate THEN [start |-> lastGoodDate, end |-> date]
  ELSE [start |-> date, end |-> date]

newZone(lastGoodDate, date) ==
  IF lastGoodDate # NoDate THEN [start |-> lastGoodDate, end |-> date] ELSE Null

\* format(addDays(parseISO(lastDate), 1), 'yyyy-MM-dd')
nextDate_SameDay(lastDate) == lastDate

nextDate(lastDate) == lastDate + 1

\* One step of the forEach over the sorted expected dates
scanStep(s, date, readings) ==
  IF isGapDay(readings)
    THEN IF s.currentZone = Null
           THEN [s EXCEPT !.currentZone = newZone(s.lastGoodDate, date)]
           ELSE [s EXCEPT !.currentZone.end = date]
    ELSE IF s.currentZone # Null
           THEN [missingZones |-> Append(s.missingZones, [s.currentZone EXCEPT !.end = date]),
                 currentZone |-> Null, lastGoodDate |-> date]
           ELSE [s EXCEPT !.lastGoodDate = date]

RECURSIVE scan(_, _, _, _)
scan(dates, perDay, i, s) ==
  IF i > Len(dates) THEN s
  ELSE scan(dates, perDay, i + 1, scanStep(s, dates[i], readingsOn(perDay, dates[i])))

\* missingZones: the scan, then the zone still open at the end is closed at the next day
missingZones(dates, perDay) ==
  LET s == scan(dates, perDay, 1,
                [missingZones |-> << >>, currentZone |-> Null, lastGoodDate |-> NoDate])
  IN IF s.currentZone # Null
       THEN Append(s.missingZones,
                   [start |-> s.currentZone.start, end |-> nextDate(dates[Len(dates)])])
       ELSE s.missingZones

\* acc[dateKey].value += reading.consumption || 0 over the readings lo..hi of a date
RECURSIVE SumOn(_, _, _, _, _)
SumOn(sorted, tz, k, lo, hi) ==
  IF lo > hi THEN 0
  ELSE IF lo = hi
    THEN IF dateKey(sorted[lo].interval_start, tz) = k THEN sorted[lo].consumption ELSE 0
    ELSE LET mid == (lo + hi) \div 2 IN
           SumOn(sorted, tz, k, lo, mid) + SumOn(sorted, tz, k, mid + 1, hi)

\* The reduce that groups and sums by local date; Object.entries lists the
\* dates in the order their first reading appears
groupByDay(sorted, tz) ==
  LET idx == 1..Len(sorted)
      key(i) == dateKey(sorted[i].interval_start, tz)
      firstOf(k) == CHOOSE i \in idx : key(i) = k /\ \A j \in 1..(i - 1) : key(j) # k
      firsts == sortedKeys({firstOf(k) : k \in {key(i) : i \in idx}})
  IN Array([n \in 1..Len(firsts) |->
              [date |-> key(firsts[n]),
               value |-> SumOn(sorted, tz, key(firsts[n]), 1, Len(sorted)),
               readingCount |-> Cardinality({i \in idx : key(i) = key(firsts[n])})]],
           Len(firsts))

\* The earlier chart's chartData, sorted by date
chartDataV1(sorted, tz) ==
  sortByDate(
    IF daysDifference(sorted, tz) > 1
      THEN LET g == groupByDay(sorted, tz) IN
             Array([i \in 1..Len(g) |->
                      [date |-> g[i].date, value |-> g[i].value,
                       hasData |-> g[i].readingCount >= MinReadings /\ g[i].value > 0]],
                   Len(g))
      ELSE Array([i \in 1..Len(sorted) |->
                    [date |-> dateKey(sorted[i].interval_start, tz),
                     value |-> sorted[i].consumption,
                     hasData |-> sorted[i].consumption > 0]],
                 Len(sorted)))

\* chartData.find(d => d.date === date): the index of the first match, 0 when none
find(points, date) ==
  LET hits == {j \in 1..Len(points) : points[j].date = date} IN
    IF hits = {} THEN 0 ELSE CHOOSE j \in hits : \A h \in hits : j <= h

\* allDates: the expected dates and the dates of the chart points, ascending
allDates(points, dates) ==
  sortedKeys({dates[i] : i \in 1..Len(dates)} \cup {points[j].date : j \in 1..Len(points)})

\* fullChartData: for every date its first chart point, or a zero point
fullChartData(points, dates) ==
  LET all == allDates(points, dates) IN
    Array([i \in 1..Len(all) |->
             IF find(points, all[i]) # 0
               THEN points[find(points, all[i])]
               ELSE [date |-> all[i], value |-> 0, hasData |-> FALSE]],
          Len(all))

\* Everything the earlier chart derives from its props
renderV1(p) ==
  LET sorted == sortedData(p.data)
      perDay == readingsPerDay(sorted, p.tz)
      dates == expectedDatesV1(sorted, p.tz)
      points == chartDataV1(sorted, p.tz)
  IN [ kind |-> "gaps",
       daysDifference |-> daysDifference(sorted, p.tz),
       readingsPerDay |-> perDay,
       expectedDates |-> dates,
       missingZones |-> missingZones(dates, perDay),
       fullChartData |-> fullChartData(points, dates) ]

(***************************************************************************)
(* Numbers that are not whole: a JavaScript number is kept as an exact     *)
(* fraction num/den in lowest terms; 0/0 is NaN and 1/0 is Infinity.        *)
(* Rounding of floating point and of toFixed(2) is left out.               *)
(***************************************************************************)
RECURSIVE Gcd(_, _)
Gcd(a, b) == IF b = 0 THEN a ELSE Gcd(b, a % b)

Abs(a) == IF a < 0 THEN 0 - a ELSE a

NaN == [num |-> 0, den |-> 0]

Infinity == [num |-> 1, den |-> 0]

\* n / d for whole n and d # 0
Num(n, d) ==
  LET g == Gcd(Abs(n), Abs(d))
      sign == IF d < 0 THEN 0 - 1 ELSE 1
  IN [num |-> sign * (n \div g), den |-> sign * (d \div g)]

Whole(n) == [num |-> n, den |-> 1]

\* x + y, x * y and x / y on non-negative numbers, as IEEE arithmetic gives them
Add(x, y) ==
  IF x = NaN \/ y = NaN THEN NaN
  ELSE IF x = Infinity \/ y = Infinity THEN Infinity
  ELSE Num(x.num * y.den + y.num * x.den, x.den * y.den)

Mul(x, y) ==
  IF x = NaN \/ y = NaN THEN NaN
  ELSE IF x = Infinity \/ y = Infinity
    THEN IF x.num = 0 \/ y.num = 0 THEN NaN ELSE Infinity
  ELSE Num(x.num * y.num, x.den * y.den)

Div(x, y) ==
  IF x = NaN \/ y = NaN \/ (x = Infinity /\ y = Infinity) THEN NaN
  ELSE IF y = Infinity THEN Whole(0)
  ELSE IF x = Infinity THEN Infinity
  ELSE IF y.num = 0 THEN (IF x.num = 0 THEN NaN ELSE Infinity)
  ELSE Num(x.num * y.den, x.den * y.num)

\* A price that was not found: undefined
Undefined == [undefined |-> TRUE]

\* if (price), item.price ? ... : a number other than 0 and NaN
truthy(price) == price # Undefined /\ price.num # 0

\* item.price || 0
orZero(price) == IF truthy(price) THEN price ELSE Whole(0)

\* format(d, "yyyy-MM-dd'T'HH:mm:ss'Z'"): the viewer-local wall clock time of an
\* instant, followed by a literal Z
formatKey(instant, tz) == instant + tz

\* rates.length === 1 && rates[0].payment_method === 'direct_debit_monthly'
isFixedRate(list) == Len(list) = 1 /\ list[1].payment_method = "direct_debit_monthly"

\* rateMap: for a fixed rate every reading's key maps to the rate; otherwise each
\* entry is stored under the key of its valid_from, a later entry replacing an
\* earlier one with the same key
rateMap(rates, sorted, tz) ==
  IF ~rates.given THEN << >>
  ELSE IF isFixedRate(rates.list)
    THEN [k \in {formatKey(sorted[i].interval_start, tz) : i \in 1..Len(sorted)} |->
            Whole(rates.list[1].value_inc_vat)]
    ELSE [k \in {formatKey(rates.list[i].valid_from, tz) : i \in 1..Len(rates.list)} |->
            LET last == CHOOSE i \in 1..Len(rates.list) :
                          /\ formatKey(rates.list[i].valid_from, tz) = k
                          /\ \A j \in (i + 1)..Len(rates.list) :
                               formatKey(rates.list[j].valid_from, tz) # k
            IN Whole(rates.list[last].value_inc_vat)]

\* rateMap.get(format(parseISO(reading.interval_start), ...))
rateMapGet(map, instant, tz) ==
  IF formatKey(instant, tz) \in DOMAIN map THEN map[formatKey(instant, tz)] ELSE Undefined

\* rates?.length === 1
singleRate(rates) == rates.given /\ Len(rates.list) = 1

\* The price the chart resolves for one reading
priceOfReading(rates, map, reading, tz) ==
  IF singleRate(rates) THEN Whole(rates.list[1].value_inc_vat)
  ELSE rateMapGet(map, reading.interval_start, tz)

\* The prices found for the readings lo..hi of a date: their sum and their number
RECURSIVE pricesOn(_, _, _, _, _, _)
pricesOn(sorted, tz, k, map, lo, hi) ==
  IF lo > hi THEN [sum |-> Whole(0), n |-> 0]
  ELSE IF lo = hi
    THEN IF /\ dateKey(sorted[lo].interval_start, tz) = k
            /\ truthy(rateMapGet(map, sorted[lo].interval_start, tz))
           THEN [sum |-> rateMapGet(map, sorted[lo].interval_start, tz), n |-> 1]
           ELSE [sum |-> Whole(0), n |-> 0]
    ELSE LET mid == (lo + hi) \div 2
             l == pricesOn(sorted, tz, k, map, lo, mid)
             r == pricesOn(sorted, tz, k, map, mid + 1, hi)
         IN [sum |-> Add(l.sum, r.sum), n |-> l.n + r.n]

\* acc[dateKey].price and priceReadings of a day bucket: the single rate, or the
\* running average (oldAvg * n + price) / (n + 1) over the prices found
bucketPrice(sorted, tz, k, rates, map) ==
  IF singleRate(rates)
    THEN [price |-> Whole(rates.list[1].value_inc_vat), priceReadings |-> 0]
    ELSE LET found == IF DOMAIN map = {} THEN [sum |-> Whole(0), n |-> 0]
                      ELSE pricesOn(sorted, tz, k, map, 1, Len(sorted)) IN
           [price |-> IF found.n = 0 THEN Whole(0) ELSE Div(found.sum, Whole(found.n)),
            priceReadings |-> found.n]

\* The later chart's chartData: a day bucket per local date when
\* daysDifference > 1, a point per reading otherwise
chartData(sorted, tz, rates) ==
  LET map == rateMap(rates, sorted, tz) IN
  IF daysDifference(sorted, tz) > 1
    THEN LET g == groupByDay(sorted, tz) IN
           Array([i \in 1..Len(g) |->
                    LET priced == bucketPrice(sorted, tz, g[i].date, rates, map) IN
                    [date |-> g[i].date, value |-> g[i].value, previousValue |-> 0,
                     price |-> priced.price,
                     hasData |-> g[i].readingCount >= MinReadings /\ g[i].value > 0,
                     readingCount |-> g[i].readingCount,
                     priceReadings |-> priced.priceReadings]],
                 Len(g))
    ELSE Array([i \in 1..Len(sorted) |->
                  LET price == priceOfReading(rates, map, sorted[i], tz) IN
                  [date |-> dateKey(sorted[i].interval_start, tz),
                   value |-> sorted[i].consumption, previousValue |-> 0,
                   price |-> price,
                   hasData |-> sorted[i].consumption > 0,
                   readingCount |-> 1,
                   priceReadings |-> IF truthy(price) THEN 1 ELSE 0]],
               Len(sorted))

\* if (readingDate < startOfDay(new Date())): readings before the viewer's local midnight
completeDays(previous, tz, today) ==
  LET beforeToday(r) == r.interval_start < today * SlotsPerDay - tz IN
    SelectSeq(previous, beforeToday)

\* previousDailyTotals as sortedPreviousDays: totals per local date, ascending by date
sortedPreviousDays(previous, tz, today) ==
  LET kept == completeDays(previous, tz, today)
      days == sortedKeys({dateKey(kept[i].interval_start, tz) : i \in 1..Len(kept)})
  IN Array([n \in 1..Len(days) |->
              [date |-> days[n],
               value |-> SumOn(kept, tz, days[n], 1, Len(kept)),
               readingCount |->
                 Cardinality({i \in 1..Len(kept) :
                                dateKey(kept[i].interval_start, tz) = days[n]})]],
           Len(days))

\* Math.max(point.readingCount || 0, 48)
Max(a, b) == IF a >= b THEN a ELSE b

\* chartData.map with previous values: point index pairs with the previous day
\* sortedPreviousDays.length - chartData.length + index
withPreviousValues(points, previousDays) ==
  Array([i \in 1..Len(points) |->
           LET j == Len(previousDays) - Len(points) + i IN
             [points[i] EXCEPT
                !.previousValue = IF j \in 1..Len(previousDays) THEN previousDays[j].value ELSE 0,
                !.readingCount = Max(points[i].readingCount, SlotsPerDay)]],
        Len(points))

\* expectedDates of the later chart: firstDate + i days for i = 0..29
expectedDates(sorted, tz) ==
  [i \in 1..ExpectedDays |-> dateKey(sorted[1].interval_start, tz) + i - 1]

\* .slice(0, 30)
slice(s, n) == SubSeq(s, 1, IF Len(s) < n THEN Len(s) ELSE n)

\* chartDataWithMissingDates: for every date its first chart point or a zero
\* point, cut to 30 entries
chartDataWithMissingDates(points, dates) ==
  LET all == allDates(points, dates) IN
    slice(Array([i \in 1..Len(all) |->
                   IF find(points, all[i]) # 0
                     THEN points[find(points, all[i])]
                     ELSE [date |-> all[i], value |-> 0, previousValue |-> 0,
                           price |-> Whole(0), hasData |-> FALSE, readingCount |-> 0,
                           priceReadings |-> 0]],
                Len(all)),
          ExpectedDays)

\* The price looked up for each reading, in time order (kept when rates are passed)
readingPrices(rates, sorted, tz) ==
  IF ~rates.given THEN << >>
  ELSE LET map == rateMap(rates, sorted, tz) IN
         Array([i \in 1..Len(sorted) |->
                  [at |-> sorted[i].interval_start,
                   consumption |-> sorted[i].consumption,
                   price |-> priceOfReading(rates, map, sorted[i], tz)]],
               Len(sorted))

\* total: finalChartData.reduce((sum, item) => sum + item.value, 0)
RECURSIVE total(_, _)
total(final, i) == IF i > Len(final) THEN 0 ELSE final[i].value + total(final, i + 1)

\* finalChartData.reduce((sum, item) => sum + (item.price || 0), 0)
RECURSIVE priceSum(_, _)
priceSum(final, i) ==
  IF i > Len(final) THEN Whole(0) ELSE Add(orZero(final[i].price), priceSum(final, i + 1))

\* finalChartData.filter(item => item.price).length
pricedCount(final) == Cardinality({i \in 1..Len(final) : truthy(final[i].price)})

\* numberOfDays: the keys of dailyTotals; format(item.date, 'yyyy-MM-dd') reads
\* the date string as UTC midnight and prints its viewer-local date
numberOfDays(final, tz) ==
  Cardinality({dateKey(final[i].date * SlotsPerDay, tz) : i \in 1..Len(final)})

\* averageDailyUsage: the daily totals summed, over numberOfDays
averageDailyUsage(final, tz) == Div(Whole(total(final, 1)), Whole(numberOfDays(final, tz)))

\* (usage * sum of prices) / (number of priced points * 100)
consumptionCost(usage, final) ==
  Div(Mul(usage, priceSum(final, 1)), Whole(pricedCount(final) * 100))

\* calculateTotalCost
calculateTotalCost(final, tz, standingCharge) ==
  IF standingCharge # 0 /\ numberOfDays(final, tz) > 0
    THEN Add(consumptionCost(Whole(total(final, 1)), final),
             Num(standingCharge * numberOfDays(final, tz), 100))
    ELSE consumptionCost(Whole(total(final, 1)), final)

\* calculateDailyCost
calculateDailyCost(final, tz, standingCharge) ==
  IF standingCharge # 0
    THEN Add(consumptionCost(averageDailyUsage(final, tz), final), Num(standingCharge, 100))
    ELSE consumptionCost(averageDailyUsage(final, tz), final)

\* Math.min(...validPrices): Infinity for an empty list
lowestPrice(final) ==
  LET valid == {final[i].price : i \in {k \in 1..Len(final) : truthy(final[k].price)}} IN
    IF valid = {} THEN Infinity
    ELSE CHOOSE x \in valid : \A y \in valid : x.num * y.den <= y.num * x.den

\* The average price card: sum of prices / number of priced points
averagePrice(final) == Div(priceSum(final, 1), Whole(pricedCount(final)))

\* The cost figures, rendered only when rates are passed ({rates && ...})
costCards(p, final) ==
  IF p.rates.given
    THEN [ shown |-> TRUE,
           usageCost |-> consumptionCost(Whole(total(final, 1)), final),
           totalCost |-> calculateTotalCost(final, p.tz, p.standingCharge),
           dailyCost |-> calculateDailyCost(final, p.tz, p.standingCharge),
           lowestPrice |-> lowestPrice(final),
           averagePrice |-> averagePrice(final) ]
    ELSE [shown |-> FALSE]

\* Everything the later chart derives from its props
renderChart(p) ==
  LET sorted == sortedData(p.data)
      points == chartData(sorted, p.tz, p.rates)
      merged == IF p.previousPeriodData.given /\ p.showPreviousPeriod
                  THEN withPreviousValues(points,
                         sortedPreviousDays(p.previousPeriodData.readings, p.tz, p.today))
                  ELSE points
      final == sortByDate(chartDataWithMissingDates(merged, expectedDates(sorted, p.tz)))
  IN [ kind |-> "chart",
       daysDifference |-> daysDifference(sorted, p.tz),
       finalChartData |-> final,
       readingPrices |-> readingPrices(p.rates, sorted, p.tz),
       total |-> total(final, 1),
       numberOfDays |-> numberOfDays(final, p.tz),
       cost |-> costCards(p, final) ]

\* How an input series is laid out: where a short day's readings sit, the
\* consumption unit (0 for a meter that reports zeros), and the order of the list
SeriesShapes ==
  { [placement |-> "head", unit |-> 5, newestFirst |-> FALSE],
    [placement |-> "tail", unit |-> 5, newestFirst |-> TRUE],
    [placement |-> "tail", unit |-> 0, newestFirst |-> FALSE] }

\* Series the dashboard can pass as data: up to MaxDays days, never empty
SeriesInputs ==
  { IF shape.newestFirst
      THEN Reverse(SeriesOf(counts, FirstDay, 1, shape.placement, shape.unit))
      ELSE SeriesOf(counts, FirstDay, 1, shape.placement, shape.unit) :
      counts \in UNION {[1..n -> CountChoices] : n \in 1..MaxDays},
      shape \in SeriesShapes } \ {<< >>}

\* previousPeriodData: not passed, or the two days just before the series (a
\* full day, then a day of 40 readings), newest first
PreviousInputs ==
  { [given |-> FALSE],
    [given |-> TRUE,
     readings |->
       Reverse(SeriesOf(<<SlotsPerDay, MinReadings>>, FirstDay - 2, 1, "head", 3))] }

ChartInit ==
  /\ CacheInit
  /\ FetchIdle
  /\ props \in [data : SeriesInputs, tz : TzOffsets, previousPeriodData : PreviousInputs,
                showPreviousPeriod : {FALSE}, today : {FirstDay + MaxDays},
                rates : {[given |-> FALSE]}, standingCharge : {0}]
  /\ view = [kind |-> "unrendered"]

\* The earlier listing of the component renders its props
RenderGapChart ==
  /\ view.kind = "unrendered"
  /\ view' = renderV1(props)
  /\ UNCHANGED props

\* The later listing of the component renders its props
RenderChart ==
  /\ view.kind = "unrendered"
  /\ view' = renderChart(props)
  /\ UNCHANGED props

\* The dashboard switches the comparison on or off and the chart renders again
TogglePreviousPeriod ==
  /\ view.kind = "chart"
  /\ props' = [props EXCEPT !.showPreviousPeriod = ~props.showPreviousPeriod]
  /\ view' = renderChart(props')

ChartNext ==
  \/ RenderGapChart /\ UNCHANGED <<cacheVars, fetchVars>>
  \/ RenderChart /\ UNCHANGED <<cacheVars, fetchVars>>
  \/ TogglePreviousPeriod /\ UNCHANGED <<cacheVars, fetchVars>>

ChartSpec == ChartInit /\ [][ChartNext]_vars

(***************************************************************************)
(* The later chart with rates and a standing charge (specification         *)
(* PriceSpec): short series, so that every rate list can be tried          *)
(***************************************************************************)
\* Entries of a rate list
MaxRates == 2

\* Readings a day of a priced series holds, from midnight UTC
PricedCounts == {1, 2}

\* One day (a point per reading) or MaxDays days (day buckets)
PricedSeries ==
  { SeriesOf(counts, FirstDay, 1, "head", 5) :
      counts \in { [d \in 1..n |-> c] : n \in {1, MaxDays}, c \in PricedCounts } }

\* Rates valid from the first or the second slot of the series, for one slot or
\* for the whole series; a monthly direct debit rate or another one
RateEntries ==
  { [valid_from |-> FirstDay * SlotsPerDay + offset,
     valid_to |-> FirstDay * SlotsPerDay + offset + length,
     value_inc_vat |-> kind.value_inc_vat,
     payment_method |-> kind.payment_method] :
      offset \in {0, 1},
      length \in {1, MaxDays * SlotsPerDay},
      kind \in { [value_inc_vat |-> 10, payment_method |-> "direct_debit_monthly"],
                 [value_inc_vat |-> 20, payment_method |-> "non_direct_debit_monthly"] } }

\* rates: not passed, or a list of up to MaxRates entries
RateInputs ==
  {[given |-> FALSE]}
    \cup { [given |-> TRUE, list |-> l] : l \in UNION {[1..n -> RateEntries] : n \in 0..MaxRates} }

\* standingCharge in pence per day; 0 stands for a charge that is not passed
StandingCharges == {0, 50}

PriceInit ==
  /\ CacheInit
  /\ FetchIdle
  /\ props \in [data : PricedSeries, tz : {0, 2}, previousPeriodData : {[given |-> FALSE]},
                showPreviousPeriod : {FALSE}, today : {FirstDay + MaxDays},
                rates : RateInputs, standingCharge : StandingCharges]
  /\ view = [kind |-> "unrendered"]

PriceSpec == PriceInit /\ [][ChartNext]_vars

(***************************************************************************)
(* Standing charge selection in OctopusProvider.fetchData (specification   *)
(* ChargeSpec). props holds the fetched results and the current time, view *)
(* the charge put into the provider's state; instants are counted in days. *)
(***************************************************************************)
\* Entries of a fetched standing charge list
MaxCharges == 2

\* valid_to: null
NoEnd == 0 - 1

\* Fetched standing charges: starting on one of four days, lasting one or two
\* days or open-ended
ChargeEntries ==
  { [valid_from |-> from,
     valid_to |-> IF length = NoEnd THEN NoEnd ELSE from + length,
     value_inc_vat |-> value] :
      from \in 0..3, length \in {1, 2, NoEnd}, value \in {40, 50} }

\* The current time, between the second and the third start
ChargeNow == 2

\* results.sort((a, b) => new Date(b.valid_from) - new Date(a.valid_from))[0]
currentCharge(results) ==
  LET n == Len(results)
      s == mergeSort([i \in 1..n |-> [key |-> 0 - results[i].valid_from, item |-> results[i]]],
                     1, n)
  IN IF n = 0 THEN Undefined ELSE s[1].item

ChargeInit ==
  /\ CacheInit
  /\ FetchIdle
  /\ props \in [results : UNION {[1..n -> ChargeEntries] : n \in 0..MaxCharges},
                now : {ChargeNow}]
  /\ view = [kind |-> "unrendered"]

\* if (tariffData.electricityStandingCharges) { ... setElectricityStandingCharge(currentCharge) }
SelectStandingCharge ==
  /\ view.kind = "unrendered"
  /\ view' = [kind |-> "standingCharge", current |-> currentCharge(props.results)]
  /\ UNCHANGED props

ChargeNext ==
  \/ SelectStandingCharge /\ UNCHANGED <<cacheVars, fetchVars>>

ChargeSpec == ChargeInit /\ [][ChargeNext]_vars

(***************************************************************************)
(* The dashboard's percentage change (specification ChangeSpec). props     *)
(* holds the two totals passed to calculateChange, view its result.        *)
(***************************************************************************)
\* x - y and x < y on finite numbers
Sub(x, y) == Add(x, Num(0 - y.num, y.den))

Less(x, y) == x.num * y.den < y.num * x.den

\* const MIN_THRESHOLD = 0.1
MIN_THRESHOLD == Num(1, 10)

\* if (previous < MIN_THRESHOLD)
negligible_OnlyZero(previous) == ~Less(Whole(0), previous)

negligible(previous) == Less(previous, MIN_THRESHOLD)

\* calculateChange(current, previous)
calculateChange(current, previous) ==
  IF negligible(previous) THEN Null
  ELSE Mul(Div(Sub(current, previous), previous), Whole(100))

\* Totals in kWh, given in hundredths
Totals == {Num(h, 100) : h \in {0, 5, 9, 10, 11, 100, 250, 500}}

ChangeInit ==
  /\ CacheInit
  /\ FetchIdle
  /\ props \in [current : Totals, previous : Totals]
  /\ view = [kind |-> "unrendered"]

\* const percentChange = calculateChange(currentTotal, previousTotal)
CalculateChange ==
  /\ view.kind = "unrendered"
  /\ view' = [kind |-> "change",
              percentChange |-> calculateChange(props.current, props.previous)]
  /\ UNCHANGED props

ChangeNext ==
  \/ CalculateChange /\ UNCHANGED <<cacheVars, fetchVars>>

ChangeSpec == ChangeInit /\ [][ChangeNext]_vars

(***************************************************************************)
(* DailyPatternChart (specification PatternSpec)                           *)
(***************************************************************************)
\* Readings the pattern input holds at most
MaxReadings == 3

HoursPerDay == 24

\* getHours(parseISO(reading.interval_start)): the viewer-local hour of day of a
\* half-hour slot counted from midnight UTC; tz is the viewer's offset in minutes
getHours(slot, tz) == ((slot * 30 + tz) \div 60) % HoursPerDay

\* data.filter(reading => readingHour === hour), as the indices kept
hourReadings(data, hour, tz) ==
  {i \in 1..Len(data) : getHours(data[i].interval_start, tz) = hour}

\* hourReadings.reduce((sum, reading) => sum + (reading.consumption || 0), 0)
RECURSIVE totalConsumption(_, _)
totalConsumption(data, kept) ==
  IF kept = {} THEN Whole(0)
  ELSE LET i == CHOOSE j \in kept : \A k \in kept : k <= j
       IN Add(totalConsumption(data, kept \ {i}), orZero(data[i].consumption))

\* hourReadings.length > 0 ? totalConsumption / hourReadings.length : 0
average(data, kept) ==
  IF Cardinality(kept) > 0
    THEN Div(totalConsumption(data, kept), Whole(Cardinality(kept)))
    ELSE Whole(0)

\* Array.from({ length: 24 }, (_, hour) => ...): element hour + 1 is the bucket of hour
hourlyAverages(data, tz) ==
  Array([i \in 1..HoursPerDay |->
           [hour |-> i - 1, average |-> average(data, hourReadings(data, i - 1, tz))]],
        HoursPerDay)

\* Math.max(...hourlyAverages.map(h => h.average))
maxAverage(averages) ==
  LET values == {averages[i].average : i \in 1..Len(averages)}
  IN CHOOSE m \in values : \A v \in values : ~Less(m, v)

\* Math.min(...hourlyAverages.filter(h => h.average > 0).map(h => h.average));
\* Math.min() of no numbers is Infinity
minAverage(averages) ==
  LET values == {averages[i].average : i \in 1..Len(averages)}
      positive == {v \in values : Less(Whole(0), v)}
  IN IF positive = {} THEN Infinity
     ELSE CHOOSE m \in positive : \A v \in positive : ~Less(v, m)

\* hourlyAverages.map(hourData => ({ ...hourData, isPeak, isLowest }))
enhancedHourlyAverages(averages) ==
  Array([i \in 1..Len(averages) |->
           [hour |-> averages[i].hour,
            average |-> averages[i].average,
            isPeak |-> averages[i].average = maxAverage(averages),
            isLowest |-> averages[i].average = minAverage(averages)
                           /\ Less(Whole(0), averages[i].average)]],
        Len(averages))

\* Array.prototype.find: the first element that matches, undefined if none does
firstOf_Last(list, hits) ==
  IF hits = {} THEN Undefined ELSE list[CHOOSE i \in hits : \A j \in hits : j <= i]

firstOf(list, hits) ==
  IF hits = {} THEN Undefined ELSE list[CHOOSE i \in hits : \A j \in hits : i <= j]

\* enhancedHourlyAverages.find(h => h.isPeak)
peakHour(enhanced) == firstOf(enhanced, {i \in 1..Len(enhanced) : enhanced[i].isPeak})

\* enhancedHourlyAverages.find(h => h.isLowest)
lowestHour(enhanced) == firstOf(enhanced, {i \in 1..Len(enhanced) : enhanced[i].isLowest})

\* DailyPatternChart({ data, loading, type })
renderPattern(p) ==
  IF p.loading THEN [kind |-> "loading"]
  ELSE IF ~p.data.given \/ Len(p.data.list) = 0 THEN [kind |-> "noData"]
  ELSE LET averages == hourlyAverages(p.data.list, p.tz)
           enhanced == enhancedHourlyAverages(averages)
       IN [kind |-> "pattern",
           hourlyAverages |-> enhanced,
           maxAverage |-> maxAverage(averages),
           minAverage |-> minAverage(averages),
           peakHour |-> peakHour(enhanced),
           lowestHour |-> lowestHour(enhanced)]

\* Half-hour slots of the readings: 00:00 and 01:00 UTC of one day and 00:00 UTC
\* of the next
PatternSlots == {0, 2, 48}

\* Consumption of a reading, in kWh
PatternConsumptions == {0, 2, 4}

\* Viewer offsets in minutes: UTC, UTC+5:30, UTC-10
PatternTz == {0, 330, 0 - 600}

PatternReadings ==
  [interval_start : PatternSlots, consumption : {Whole(c) : c \in PatternConsumptions}]

PatternData ==
  {[given |-> FALSE]}
    \cup { [given |-> TRUE, list |-> l] :
             l \in UNION {[1..n -> PatternReadings] : n \in 0..MaxReadings} }

PatternInit ==
  /\ CacheInit
  /\ FetchIdle
  /\ props \in [data : {[given |-> FALSE]}, loading : {TRUE}, tz : PatternTz]
               \cup [data : PatternData, loading : {FALSE}, tz : PatternTz]
  /\ view = [kind |-> "unrendered"]

\* The component renders
RenderPattern ==
  /\ view.kind = "unrendered"
  /\ view' = renderPattern(props)
  /\ UNCHANGED props

PatternNext ==
  \/ RenderPattern /\ UNCHANGED <<cacheVars, fetchVars>>

PatternSpec == PatternInit /\ [][PatternNext]_vars

(***************************************************************************)
(* OctopusProvider (specification ProviderSpec)                            *)
(*                                                                         *)
(* view is the provider's React state together with whether DashboardGrid  *)
(* is mounted; call.running holds the connect and refreshData invocations  *)
(* that are suspended at an await; props.slotLeftNull records whether some *)
(* fetchAllConsumption so far resolved with a null slot.                   *)
(***************************************************************************)
\* connect and refreshData invocations started in one run
MaxInvocations == 3

\* Account numbers the user can enter
Accounts == {"A-1111", "A-2222"}

\* HTTP statuses of a failed account request, with their status texts
Statuses == {401, 404, 429, 500}

statusText(status) ==
  CASE status = 401 -> "Unauthorized"
    [] status = 404 -> "Not Found"
    [] status = 429 -> "Too Many Requests"
    [] status = 500 -> "Internal Server Error"

\* throw new Error(`API request failed: ${response.status} ${response.statusText}`)
requestError(status) ==
  [class |-> "Error", message |-> <<"API request failed:", status, statusText(status)>>]

\* throw new Error('Invalid tariff code format')
tariffCodeError == [class |-> "Error", message |-> <<"Invalid tariff code format">>]

\* The catch blocks of connect and refreshData: the message put into error
errorMessage(kind, err) ==
  IF err.class = "OctopusApiError"
    THEN IF err.status = 401
           THEN <<"Invalid API key. Please check your credentials.">>
         ELSE IF err.status = 429
           THEN <<"Too many requests. Please try again later.">>
         ELSE IF err.status = 404
           THEN IF kind = "connect"
                  THEN <<"Account or meter not found. Please check your details.">>
                  ELSE <<"Meter not found. Please check your meter details.">>
         ELSE <<"API Error:">> \o err.message
    ELSE err.message

\* The login view is shown while no consumption series is held
loginView(v) ==
  /\ v.electricityImportConsumption = Null
  /\ v.electricityExportConsumption = Null
  /\ v.gasConsumption = Null

\* The slots of the object fetchAllConsumption returns
Slots == Types \X {"current", "previous"}

SlotOrder ==
  << <<"import", "current">>, <<"import", "previous">>, <<"export", "current">>,
     <<"export", "previous">>, <<"gas", "current">>, <<"gas", "previous">> >>

\* The slots fetchAllConsumption can leave null: none, one series, every series
NullSlots == { {}, {<<"import", "current">>}, Slots }

\* The window of a period of an invocation
windowFrom(op, period) == IF period = "current" THEN op.from ELSE previousFrom(op.from, op.to)

windowTo(op, period) == IF period = "current" THEN op.to ELSE previousTo(op.from, op.to)

\* What the cache holds for the sub-fetch of a slot when fetchAllConsumption is called
cachedSlot(c, op, slot) ==
  getDateRangeData(c, cacheKeyOf(slot[1]), windowFrom(op, slot[2]), windowTo(op, slot[2]),
                   now).value

\* The response in a slot: the cached one, or null, or the answer to the
\* request sent for the meters the instance holds and the window of the period
slotResponse(op, slot, nulls) ==
  IF op.hits[slot] # Null THEN op.hits[slot]
  ELSE IF slot \in nulls THEN Null
  ELSE [metersOf |-> op.metersOf, type |-> slot[1],
        from |-> windowFrom(op, slot[2]), to |-> windowTo(op, slot[2])]

\* cache.setDateRangeData(cacheKey, from, to, response) of every answered request
RECURSIVE storeResponses(_, _, _, _)
storeResponses(c, op, nulls, i) ==
  IF i > Len(SlotOrder) THEN c
  ELSE LET slot == SlotOrder[i]
           next == IF op.hits[slot] = Null /\ slot \notin nulls
                     THEN setDateRangeData(c, cacheKeyOf(slot[1]), windowFrom(op, slot[2]),
                                           windowTo(op, slot[2]),
                                           slotResponse(op, slot, nulls), NoTtl, now)
                     ELSE c
       IN storeResponses(next, op, nulls, i + 1)

\* if (consumptionData.currentPeriod.x) setX(consumptionData.currentPeriod.x.results)
setIfPresent(held, response) == IF response # Null THEN response ELSE held

\* fetchData once fetchAllConsumption has resolved: the series are set and
\* fetchAllTariffs(from, to) is awaited
consumptionSet(v, c, op, nulls) ==
  [view |->
     [v EXCEPT
        !.electricityImportConsumption =
           setIfPresent(@, slotResponse(op, <<"import", "current">>, nulls)),
        !.electricityExportConsumption =
           setIfPresent(@, slotResponse(op, <<"export", "current">>, nulls)),
        !.gasConsumption = setIfPresent(@, slotResponse(op, <<"gas", "current">>, nulls)),
        !.previousPeriodData =
           [electricityImport |-> slotResponse(op, <<"import", "previous">>, nulls),
            electricityExport |-> slotResponse(op, <<"export", "previous">>, nulls),
            gas |-> slotResponse(op, <<"gas", "previous">>, nulls)]],
   store |-> storeResponses(c, op, nulls, 1),
   op |-> [op EXCEPT !.pc = "tariffs"]]

\* fetchData at await api.fetchAllConsumption(from, to): every sub-fetch looks
\* its window up; when all are cached the call resolves without a request
callFetchAllConsumption(v, c, op) ==
  LET looked == [op EXCEPT !.hits = [slot \in Slots |-> cachedSlot(c, op, slot)]]
  IN IF \A slot \in Slots : looked.hits[slot] # Null
       THEN consumptionSet(v, c, looked, {})
       ELSE [view |-> v, store |-> c, op |-> [looked EXCEPT !.pc = "consumption"]]

\* fetchData after discoverMeters: getAccountInfo, setAccountInfo, fetchAllConsumption
afterDiscover(v, c, op, metersOf) ==
  LET r == get(c, CACHE_KEYS.ACCOUNT_INFO, now) IN
    IF r.value # Null
      THEN callFetchAllConsumption([v EXCEPT !.accountInfo = r.value], r.store,
                                   [op EXCEPT !.metersOf = metersOf])
      ELSE [view |-> v, store |-> r.store,
            op |-> [op EXCEPT !.pc = "account", !.metersOf = metersOf]]

\* discoverMeters once the account data is there: the meters are read off it and cached
metersDiscovered(v, c, op, accountData) ==
  afterDiscover(v, set(c, CACHE_KEYS.METERS, [metersOf |-> accountData.account], NoTtl, now),
                op, accountData.account)

\* fetchData(api) up to its first await that suspends
fetchData(v, c, op) ==
  LET m == get(c, CACHE_KEYS.METERS, now) IN
    IF m.value # Null
      THEN afterDiscover(v, m.store, op, m.value.metersOf)
      ELSE LET a == get(m.store, CACHE_KEYS.ACCOUNT_INFO, now) IN
             IF a.value # Null
               THEN metersDiscovered(v, a.store, op, a.value)
               ELSE [view |-> v, store |-> a.store, op |-> [op EXCEPT !.pc = "discover"]]

\* A new invocation over the window of a date range
newOp(kind, account, range) ==
  [id |-> calls + 1, kind |-> kind, account |-> account, from |-> range[1], to |-> range[2],
   pc |-> "start", metersOf |-> Null, hits |-> Null]

\* finally { setIsLoading(false) }
finally(v, others) == [v EXCEPT !.isLoading = FALSE]

\* catch (err) { setError(...); connect also does setApi(null) } finally { ... }
caught(v, op, err, others) ==
  LET e == [v EXCEPT !.error = [message |-> errorMessage(op.kind, err)]]
  IN finally(IF op.kind = "connect" THEN [e EXCEPT !.api = Null] ELSE e, others)

\* refreshData(): if (!api) return; setIsLoading(true); setError(null); fetchData(api)
refreshData(v, range) ==
  IF v.api = Null
    THEN [view |-> v, store |-> cache, running |-> call.running, started |-> 0]
    ELSE LET s == fetchData([v EXCEPT !.isLoading = TRUE, !.error = Null], cache,
                            newOp("refreshData", v.api.accountNumber, range))
         IN [view |-> s.view, store |-> s.store, running |-> call.running \cup {s.op},
             started |-> 1]

\* ApiKeyInput.handleConnect -> connect(apiKey, accountNumber)
Connect ==
  /\ calls < MaxInvocations
  /\ loginView(view)
  /\ ~view.isLoading
  /\ \E a \in Accounts :
       LET s == fetchData([view EXCEPT !.isLoading = TRUE, !.error = Null,
                                       !.api = [accountNumber |-> a]],
                          cache, newOp("connect", a, view.dateRange))
       IN /\ view' = s.view
          /\ cache' = s.store
          /\ call' = [call EXCEPT !.running = call.running \cup {s.op}]
  /\ calls' = calls + 1
  /\ lastOp' = [op |-> "connect"]
  /\ UNCHANGED <<now, ticks, sets, written, meters, nreq, props>>

\* DashboardGrid mounts once a series is held; its effect calls refreshData()
MountDashboard ==
  /\ calls < MaxInvocations
  /\ ~loginView(view)
  /\ ~view.dashboardMounted
  /\ LET s == refreshData([view EXCEPT !.dashboardMounted = TRUE], view.dateRange)
     IN /\ view' = s.view
        /\ cache' = s.store
        /\ call' = [call EXCEPT !.running = s.running]
        /\ calls' = calls + s.started
  /\ lastOp' = [op |-> "mount"]
  /\ UNCHANGED <<now, ticks, sets, written, meters, nreq, props>>

\* DateRangePicker onSelect={setDateRange}, then the effect on [dateRange]
SelectDateRange ==
  /\ calls < MaxInvocations
  /\ view.dashboardMounted
  /\ \E range \in FetchWindows :
       LET s == refreshData([view EXCEPT !.dateRange = range], range)
       IN /\ view' = s.view
          /\ cache' = s.store
          /\ call' = [call EXCEPT !.running = s.running]
          /\ calls' = calls + s.started
  /\ lastOp' = [op |-> "select"]
  /\ UNCHANGED <<now, ticks, sets, written, meters, nreq, props>>

\* The refresh button: onClick={() => refreshData()} disabled={isLoading}
ClickRefresh ==
  /\ calls < MaxInvocations
  /\ view.dashboardMounted
  /\ ~view.isLoading
  /\ LET s == refreshData(view, view.dateRange)
     IN /\ view' = s.view
        /\ cache' = s.store
        /\ call' = [call EXCEPT !.running = s.running]
        /\ calls' = calls + s.started
  /\ lastOp' = [op |-> "refresh"]
  /\ UNCHANGED <<now, ticks, sets, written, meters, nreq, props>>

\* The account request of an invocation is answered with 200
AccountResponds ==
  /\ \E op \in call.running :
       /\ op.pc \in {"discover", "account"}
       /\ LET accountData == [account |-> op.account]
              c == set(cache, CACHE_KEYS.ACCOUNT_INFO, accountData, NoTtl, now)
              s == IF op.pc = "discover"
                     THEN metersDiscovered(view, c, op, accountData)
                     ELSE callFetchAllConsumption([view EXCEPT !.accountInfo = accountData],
                                                  c, op)
          IN /\ view' = s.view
             /\ cache' = s.store
             /\ call' = [call EXCEPT !.running = (call.running \ {op}) \cup {s.op}]
  /\ lastOp' = NoOp
  /\ UNCHANGED <<now, ticks, sets, written, meters, calls, nreq, props>>

\* The account request of an invocation is answered with a status that is not ok
AccountFails ==
  /\ \E op \in call.running, status \in Statuses :
       /\ op.pc \in {"discover", "account"}
       /\ view' = caught(view, op, requestError(status), call.running \ {op})
       /\ call' = [call EXCEPT !.running = call.running \ {op}]
       /\ lastOp' = [op |-> "failed", status |-> status, kind |-> op.kind,
                     raised |-> requestError(status)]
  /\ UNCHANGED <<cache, now, ticks, sets, written, meters, calls, nreq, props>>

\* The requests of a pending fetchAllConsumption have all been answered
ConsumptionResolves ==
  /\ \E op \in call.running, nulls \in NullSlots :
       /\ op.pc = "consumption"
       /\ LET s == consumptionSet(view, cache, op, nulls)
          IN /\ view' = s.view
             /\ cache' = s.store
             /\ call' = [call EXCEPT !.running = (call.running \ {op}) \cup {s.op}]
       /\ lastOp' = [op |-> "consumption", id |-> op.id, from |-> op.from, to |-> op.to,
                     nulls |-> nulls]
  /\ UNCHANGED <<now, ticks, sets, written, meters, calls, nreq, props>>

\* fetchAllTariffs resolves, with the unit rates or without, and the invocation ends
TariffsResolve ==
  /\ \E op \in call.running :
     \E rates \in {Null, [metersOf |-> op.metersOf, from |-> op.from, to |-> op.to]} :
       /\ op.pc = "tariffs"
       /\ view' = finally([view EXCEPT !.electricityRates = setIfPresent(@, rates)],
                          call.running \ {op})
       /\ call' = [call EXCEPT !.running = call.running \ {op}]
       /\ lastOp' = [op |-> "ended", id |-> op.id]
  /\ UNCHANGED <<cache, now, ticks, sets, written, meters, calls, nreq, props>>

\* fetchAllTariffs rejects: the tariff code of the current agreement is malformed
TariffsReject ==
  /\ \E op \in call.running :
       /\ op.pc = "tariffs"
       /\ view' = caught(view, op, tariffCodeError, call.running \ {op})
       /\ call' = [call EXCEPT !.running = call.running \ {op}]
       /\ lastOp' = [op |-> "ended", id |-> op.id]
  /\ UNCHANGED <<cache, now, ticks, sets, written, meters, calls, nreq, props>>

ProviderInit ==
  /\ CacheInit
  /\ meters = {}
  /\ calls = 0
  /\ nreq = 0
  /\ props = [kind |-> "provider"]
  /\ call = [pc |-> "provider", running |-> {}]
  /\ \E range \in FetchWindows :
       view = [kind |-> "provider", api |-> Null, isLoading |-> FALSE, error |-> Null,
               accountInfo |-> Null, electricityImportConsumption |-> Null,
               electricityExportConsumption |-> Null, gasConsumption |-> Null,
               previousPeriodData |-> Null, electricityRates |-> Null,
               dateRange |-> range, dashboardMounted |-> FALSE]

ProviderNext ==
  \/ Connect
  \/ MountDashboard
  \/ SelectDateRange
  \/ ClickRefresh
  \/ AccountResponds
  \/ AccountFails
  \/ ConsumptionResolves
  \/ TariffsResolve
  \/ TariffsReject

ProviderSpec == ProviderInit /\ [][ProviderNext]_vars

(***************************************************************************)
(* OctopusApi.fetchAllTariffs (specification TariffSpec).  props is the    *)
(* account data upstream holds, call the position of the call and its      *)
(* request tasks, view what the call last returned.                        *)
(***************************************************************************)
\* Calls of fetchAllTariffs in one behaviour
MaxTariffCalls == 2

\* Tariff codes, split at the separators the pattern /^[EG]-1R-(.+)-([A-Z])$/ looks at
ElectricityCode == <<"E", "1R", "AGILE-24-10-01", "C">>

OldElectricityCode == <<"E", "1R", "VAR-22-11-01", "C">>

GasCode == <<"G", "1R", "VAR-22-11-01", "C">>

MalformedCode == <<"AGILE-24-10-01">>

RegionCodes == {"A", "B", "C"}

\* extractTariffDetails(tariffCode): the product code, or the error thrown
extractTariffDetails(code) ==
  IF Len(code) = 4 /\ code[1] \in {"E", "G"} /\ code[2] = "1R" /\ code[4] \in RegionCodes
    THEN [productCode |-> code[3], regionCode |-> code[4]]
    ELSE [thrown |-> tariffCodeError]

\* Agreements: valid_from in ms, valid_to [ms |-> ...] or null for an open one
ExpiredAgreement(code) == [valid_from |-> 0 - 10 * DayMs, valid_to |-> [ms |-> 0 - 5 * DayMs],
                           tariff_code |-> code]

OpenAgreement(code) == [valid_from |-> 0 - 5 * DayMs, valid_to |-> Null, tariff_code |-> code]

ElectricityAgreements ==
  { <<>>, <<ExpiredAgreement(OldElectricityCode)>>,
    <<ExpiredAgreement(OldElectricityCode), OpenAgreement(ElectricityCode)>>,
    <<OpenAgreement(MalformedCode)>> }

GasAgreements == { <<>>, <<OpenAgreement(GasCode)>> }

\* The account data: whether a property has moved_out_at null, the agreements
\* of its import electricity point and of its gas point (none: no such point)
TariffAccounts ==
  [current : BOOLEAN, electricity : ElectricityAgreements, gas : GasAgreements]

\* agreement valid at the time t: valid_from <= t <= (valid_to or 9999-12-31)
validAt(agreement, t) ==
  /\ t >= agreement.valid_from
  /\ (agreement.valid_to = Null \/ t <= agreement.valid_to.ms)

\* findCurrentAgreement(agreements): the first agreement valid now, or undefined
RECURSIVE findCurrentAgreement(_, _)
findCurrentAgreement(agreements, t) ==
  IF agreements = <<>> THEN Undefined
  ELSE IF validAt(Head(agreements), t) THEN Head(agreements)
  ELSE findCurrentAgreement(Tail(agreements), t)

\* The request for a kind of tariff data of a fuel
tariffRequest(fuel, code, what, from, to) ==
  [path |-> <<"products", extractTariffDetails(code).productCode, fuel \o "-tariffs", code,
              what>>,
   period_from |-> from, period_to |-> to]

\* The tasks fetchAllTariffs pushes for the electricity agreement, in order
electricityTasks(agreement, from, to) ==
  << [request |-> tariffRequest("electricity", agreement.tariff_code, "standard-unit-rates",
                                from, to), state |-> "pending"],
     [request |-> tariffRequest("electricity", agreement.tariff_code, "standing-charges",
                                from, to), state |-> "pending"] >>

\* The gas branch: the point is logged and no task is pushed
gasTasks(account, from, to) == <<>>

\* results[i] of Promise.all(tasks.map(p => p.catch(e => null)))
tariffResultAt(tasks, i) ==
  IF i > Len(tasks) THEN Undefined
  ELSE IF tasks[i].state = "ok" THEN [response |-> tasks[i].request]
  ELSE Null

\* The object fetchAllTariffs returns
tariffResults(tasks) ==
  [kind |-> "tariffs", state |-> "resolved",
   electricityRates |-> tariffResultAt(tasks, 1),
   electricityStandingCharges |-> tariffResultAt(tasks, 2),
   gasStandingCharges |-> tariffResultAt(tasks, 3)]

NoTariffs ==
  [kind |-> "tariffs", state |-> "resolved", electricityRates |-> Null,
   electricityStandingCharges |-> Null, gasStandingCharges |-> Null]

\* fetchAllTariffs(from, to) up to Promise.all
FetchAllTariffs ==
  /\ call.pc = "idle"
  /\ calls < MaxTariffCalls
  /\ \E window \in FetchWindows :
       LET r == get(cache, CACHE_KEYS.ACCOUNT_INFO, now)
           accountData == IF r.value # Null THEN r.value ELSE props.account
           store == IF r.value # Null THEN r.store
                    ELSE set(r.store, CACHE_KEYS.ACCOUNT_INFO, accountData, NoTtl, now)
           agreement == findCurrentAgreement(accountData.electricity, now)
           rejected == agreement # Undefined
                         /\ "thrown" \in DOMAIN extractTariffDetails(agreement.tariff_code)
           tasks == (IF agreement = Undefined THEN <<>>
                     ELSE electricityTasks(agreement, window[1], window[2]))
                      \o gasTasks(accountData, window[1], window[2])
       IN /\ cache' = store
          /\ IF ~accountData.current
               THEN /\ view' = NoTariffs
                    /\ call' = [pc |-> "idle", tasks |-> <<>>, from |-> window[1],
                                to |-> window[2]]
             ELSE IF rejected
               THEN /\ view' = [kind |-> "tariffs", state |-> "rejected",
                                error |-> tariffCodeError]
                    /\ call' = [pc |-> "idle", tasks |-> <<>>, from |-> window[1],
                                to |-> window[2]]
             ELSE IF tasks = <<>>
               THEN /\ view' = tariffResults(tasks)
                    /\ call' = [pc |-> "idle", tasks |-> tasks, from |-> window[1],
                                to |-> window[2]]
             ELSE /\ view' = [kind |-> "tariffs", state |-> "pending"]
                  /\ call' = [pc |-> "awaiting", tasks |-> tasks, from |-> window[1],
                              to |-> window[2]]
  /\ calls' = calls + 1
  /\ lastOp' = [op |-> "fetchAllTariffs"]
  /\ UNCHANGED <<now, ticks, sets, written, meters, nreq, props>>

\* A tariff request settles; when it is the last one Promise.all resolves
TariffRequestSettles ==
  /\ call.pc = "awaiting"
  /\ \E i \in 1..Len(call.tasks), outcome \in {"ok", "failed"} :
       /\ call.tasks[i].state = "pending"
       /\ LET tasks == [call.tasks EXCEPT ![i].state = outcome]
          IN IF \A j \in 1..Len(tasks) : tasks[j].state # "pending"
               THEN /\ view' = tariffResults(tasks)
                    /\ call' = [call EXCEPT !.pc = "idle", !.tasks = tasks]
               ELSE /\ view' = view
                    /\ call' = [call EXCEPT !.tasks = tasks]
       /\ lastOp' = [op |-> "settled", index |-> i, outcome |-> outcome]
  /\ UNCHANGED <<cache, now, ticks, sets, written, meters, calls, nreq, props>>

TariffInit ==
  /\ CacheInit
  /\ meters = {}
  /\ calls = 0
  /\ nreq = 0
  /\ call = [pc |-> "idle", tasks |-> <<>>, from |-> D2, to |-> D3]
  /\ view = [kind |-> "tariffs", state |-> "none"]
  /\ \E account \in TariffAccounts : props = [account |-> account]

TariffNext ==
  \/ FetchAllTariffs
  \/ TariffRequestSettles

TariffSpec == TariffInit /\ [][TariffNext]_vars

(***************************************************************************)
(* The window fetchData sends upstream (specification WindowSpec).  An     *)
(* instant is [day, ms]: the UTC day number and the ms since its midnight. *)
(* props is the viewer's clock, view the dateRange state and the windows   *)
(* last sent; from and to of a window are UTC midnights, as day numbers.   *)
(***************************************************************************)
\* Days before today the date picker offers
MaxPickBack == 3

\* The viewer's calendar day at the time of use
Today == 40

\* Timezone offsets of the viewer, in minutes east of UTC
ViewerTz == {0 - 600, 0 - 300, 0, 60, 330, 600}

MinuteMs == 60 * 1000

\* Days the range buttons cover: Today, Yesterday, 7 Days, 30 Days
ButtonDays == {1, 2, 7, 30}

\* if (daysDiff > 90) throw
MaxRangeDays == 90

\* The instant ms after the UTC midnight of a day, normalised
instantAt(day, ms) == [day |-> day + (ms \div DayMs), ms |-> ms % DayMs]

\* The calendar day of an instant on the viewer's clock
localDay(instant, tz) == instant.day + ((instant.ms + tz * MinuteMs) \div DayMs)

\* date-fns startOfDay(date): 00:00:00.000 of its calendar day, viewer's time
startOfDay(instant, tz) == instantAt(localDay(instant, tz), 0 - tz * MinuteMs)

\* date-fns endOfDay(date): 23:59:59.999 of its calendar day, viewer's time
endOfDay(instant, tz) == instantAt(localDay(instant, tz), DayMs - 1 - tz * MinuteMs)

\* date-fns subDays(date, n)
subDays(instant, n) == [instant EXCEPT !.day = @ - n]

\* formatApiDate(date): `${UTC year}-${UTC month}-${UTC day}T00:00:00.000Z`,
\* the UTC midnight of the UTC date of the instant
formatApiDate(instant) == instant.day

\* Math.ceil((to.getTime() - from.getTime()) / (1000 * 60 * 60 * 24))
daysDiff(from, to) ==
  (to.day - from.day) + (IF to.ms > from.ms THEN 1 ELSE 0)

\* fetchAllConsumption: periodLength = to - from, previousTo = from,
\* previousFrom = previousTo - periodLength
previousWindow(from, to) == [from |-> from - (to - from), to |-> from]

\* fetchData up to the requests: the windows sent, or nothing
windowsSent(range, tz) ==
  IF range.from = Undefined \/ range.to = Undefined THEN [sent |-> FALSE, thrown |-> FALSE]
  ELSE IF daysDiff(range.from, range.to) > MaxRangeDays
    THEN [sent |-> FALSE, thrown |-> TRUE]
  ELSE LET from == formatApiDate(startOfDay(range.from, tz))
           to == formatApiDate(endOfDay(range.to, tz))
       IN [sent |-> TRUE, from |-> from, to |-> to, previous |-> previousWindow(from, to)]

\* DateRangeButtons.handleSelect(days), then the effect on [dateRange]
ClickRangeButton ==
  /\ \E days \in ButtonDays :
       LET nowAt == instantAt(Today, 12 * 60 * MinuteMs - props.tz * MinuteMs)
           range == [from |-> startOfDay(subDays(nowAt, days - 1), props.tz),
                     to |-> endOfDay(nowAt, props.tz)]
       IN /\ view' = [kind |-> "window", dateRange |-> range,
                      windows |-> windowsSent(range, props.tz)]
          /\ lastOp' = [op |-> "button", days |-> days]
  /\ UNCHANGED <<cache, now, ticks, sets, written, meters, call, calls, nreq, props>>

\* DateRangePicker onSelect: the first click gives a range without `to`, the
\* second one the local midnights of both days; then the effect on [dateRange]
PickDateRange ==
  /\ \E fromDay \in (Today - MaxPickBack)..Today :
     \E toDay \in {Undefined} \cup {[day |-> d] : d \in fromDay..Today} :
       LET range == [from |-> instantAt(fromDay, 0 - props.tz * MinuteMs),
                     to |-> IF toDay = Undefined THEN Undefined
                            ELSE instantAt(toDay.day, 0 - props.tz * MinuteMs)]
       IN /\ view' = [kind |-> "window", dateRange |-> range,
                      windows |-> windowsSent(range, props.tz)]
          /\ lastOp' = [op |-> "picker"]
  /\ UNCHANGED <<cache, now, ticks, sets, written, meters, call, calls, nreq, props>>

\* useState({ from: startOfDay(subDays(now, 30)), to: endOfDay(now) }); nothing sent yet
WindowInit ==
  /\ CacheInit
  /\ meters = {}
  /\ calls = 0
  /\ nreq = 0
  /\ call = [pc |-> "window"]
  /\ \E tz \in ViewerTz :
       /\ props = [tz |-> tz]
       /\ LET nowAt == instantAt(Today, 12 * 60 * MinuteMs - tz * MinuteMs)
          IN view = [kind |-> "window",
                     dateRange |-> [from |-> startOfDay(subDays(nowAt, 30), tz),
                                    to |-> endOfDay(nowAt, tz)],
                     windows |-> [sent |-> FALSE, thrown |-> FALSE]]

WindowNext ==
  \/ ClickRangeButton
  \/ PickDateRange

WindowSpec == WindowInit /\ [][WindowNext]_vars

(***************************************************************************)
(* Claims about fetchAllConsumption (specification FetchSpec)              *)
(***************************************************************************)
Periods == {"current", "previous"}

\* The slot of the returned object for a (type, period)
SlotOf(response, type, period) ==
  LET p == IF period = "current" THEN response.currentPeriod ELSE response.previousPeriod
  IN IF p = Null THEN Null
     ELSE CASE type = "import" -> p.importElectricity
            [] type = "export" -> p.exportElectricity
            [] type = "gas" -> p.gas

\* The window a sub-fetch of the given period must cover
WindowOf(period) ==
  IF period = "current"
    THEN <<call.from, call.to>>
    ELSE <<ToISOString(DateParse(call.from) - (DateParse(call.to) - DateParse(call.from))),
           call.from>>

\* C1: fetchAllConsumption never rejects and resolves only after every issued
\* sub-fetch has settled; the slot of each (type, period) holds the response of
\* the sub-fetch issued for exactly that type and period (its endpoint and its
\* window), or null if that sub-fetch failed or was not issued.
C1_FetchAllResolvesWithOwnSlots ==
  /\ call.pc # "rejected"
  /\ call.pc = "resolved" =>
       /\ \A i \in 1..Len(call.tasks) : call.tasks[i].state = "fulfilled"
       /\ \A ty \in Types, pe \in Periods :
            LET slot == SlotOf(call.response, ty, pe)
                issued == ty \in meters /\ (pe = "current" \/ call.includePreviousPeriod)
                mine == {i \in 1..Len(call.tasks) :
                           call.tasks[i].type = ty /\ call.tasks[i].period = pe}
            IN IF ~issued
                 THEN slot = Null /\ mine = {}
                 ELSE /\ Cardinality(mine) = 1
                      /\ \A i \in mine :
                           IF call.tasks[i].outcome = "failed"
                             THEN slot = Null
                             ELSE /\ slot # Null
                                  /\ slot = call.tasks[i].value
                                  /\ slot.endpoint = Endpoint(ty)
                                  /\ slot.period_from = WindowOf(pe)[1]
                                  /\ slot.period_to = WindowOf(pe)[2]

\* A call over two meters and both periods resolves after one sub-fetch failed,
\* one succeeded over the network and one was served from the cache
C1_Witness ==
  /\ call.pc = "resolved"
  /\ call.includePreviousPeriod
  /\ Len(call.tasks) >= 4
  /\ \E i, j, k \in 1..Len(call.tasks) :
       /\ call.tasks[i].outcome = "failed"
       /\ call.tasks[j].outcome = "ok"
       /\ call.tasks[k].outcome = "hit"
       /\ call.tasks[i].reqId < call.tasks[j].reqId
  /\ SlotOf(call.response, "export", "current") = Null

\* C2: every sub-fetch consults the cache first: when it holds an unexpired
\* entry for (cacheKey, from, to) no request is sent and the cached response is
\* the result; on a miss exactly one request is sent and its successful
\* response is stored under that same (cacheKey, from, to).
C2_CacheConsultedBeforeRequest ==
  /\ call.pc # "idle" =>
       \A i \in 1..Len(call.tasks) :
         LET k == call.tasks[i] IN
           /\ k.cachedBefore # Null =>
                (k.requests = 0 /\ k.outcome = "hit" /\ k.value = k.cachedBefore)
           /\ k.cachedBefore = Null => (k.requests = 1 /\ k.outcome # "hit")
  /\ lastOp.op = "stored" =>
       LET k == call.tasks[lastOp.task]
           key == k.cacheKey \o "_" \o k.from \o "_" \o k.to
       IN /\ key \in DOMAIN cache
          /\ cache[key].data = k.value
          /\ cache[key].timestamp = lastOp.at
          /\ k.value.period_from = k.from /\ k.value.period_to = k.to
          /\ k.value.endpoint = Endpoint(k.type)

\* A later call finds one window cached and unexpired after time has passed,
\* misses another, and the missed one's response has just been stored
C2_Witness ==
  /\ call.pc = "awaiting"
  /\ lastOp.op = "stored"
  /\ \E i, j \in 1..Len(call.tasks) :
       /\ call.tasks[i].outcome = "hit"
       /\ call.tasks[i].requests = 0
       /\ call.tasks[j].outcome = "ok"
       /\ call.tasks[j].requests = 1
       /\ j = lastOp.task
  /\ call.startedAt > 0

(***************************************************************************)
(* Claims about the cache (specification Spec)                             *)
(***************************************************************************)
\* What getDateRangeData would return for a triple in the current state
RangeView(tr) == getDateRangeData(cache, tr[1], tr[2], tr[3], now).value

\* C3: after setDateRangeData(baseKey, from, to, v) with no later set, remove or
\* clear of that entry, a getDateRangeData(baseKey, from, to) made while
\* now - storedAt <= TTL (the cache's default ttl) returns v, and one made once
\* now - storedAt > TTL returns null.
C3_RangeReadHonoursTtl ==
  (lastOp.op = "getDateRangeData" /\ written[lastOp.triple] # Null
     /\ written[lastOp.triple].ttl = NoTtl)
  => LET w == written[lastOp.triple] IN
       IF lastOp.at - w.at <= config_ttl
         THEN lastOp.result = w.data
         ELSE lastOp.result = Null

\* A range entry written without a ttl is read after the default ttl has elapsed
C3_Witness ==
  /\ lastOp.op = "getDateRangeData"
  /\ written[lastOp.triple] # Null
  /\ written[lastOp.triple].ttl = NoTtl
  /\ lastOp.at - written[lastOp.triple].at > config_ttl
  /\ lastOp.result = Null

\* C4: the ttl passed to set / setDateRangeData governs that entry's expiry: an
\* entry stored with ttl = T is returned while now - storedAt <= T and is not
\* returned afterwards.
C4_CallerTtlGovernsExpiry ==
  (lastOp.op = "getDateRangeData" /\ written[lastOp.triple] # Null
     /\ written[lastOp.triple].ttl # NoTtl)
  => LET w == written[lastOp.triple] IN
       IF lastOp.at - w.at <= w.ttl
         THEN lastOp.result = w.data
         ELSE lastOp.result = Null

\* C5: getDateRangeData(baseKey, from, to) returns a value only if that value
\* was stored by setDateRangeData with the identical baseKey, from and to; a
\* write under another triple (another series, a super- or sub-window) never
\* shows through this triple.
C5_RangeKeysIndependent ==
  /\ \A tr \in Triples :
       RangeView(tr) # Null => (written[tr] # Null /\ RangeView(tr) = written[tr].data)
  /\ (lastOp.op = "getDateRangeData" /\ lastOp.result # Null)
       => (written[lastOp.triple] # Null /\ lastOp.result = written[lastOp.triple].data)

\* The sub-window is read back while the super-window of the same series holds another value
C5_Witness ==
  /\ lastOp.op = "getDateRangeData"
  /\ lastOp.triple = <<CACHE_KEYS.CONSUMPTION_IMPORT, D1, D2>>
  /\ lastOp.result = [v |-> "v1"]
  /\ written[<<CACHE_KEYS.CONSUMPTION_IMPORT, D1, D3>>] # Null
  /\ written[<<CACHE_KEYS.CONSUMPTION_IMPORT, D1, D3>>].data = [v |-> "v2"]
  /\ RangeView(<<CACHE_KEYS.CONSUMPTION_IMPORT, D1, D3>>) = [v |-> "v2"]

(***************************************************************************)
(* Claims about the chart's gap detection (specification ChartSpec)        *)
(***************************************************************************)
\* Readings of the input series whose start falls on a viewer-local date
countOn(date) ==
  Cardinality({i \in 1..Len(props.data) :
                 dateKey(props.data[i].interval_start, props.tz) = date})

\* The i-th expected date of the rendered gap chart holds fewer than 40 readings
shortDay(i) == countOn(view.expectedDates[i]) < MinReadings

\* Some expected date before the i-th holds 40 readings or more
goodBefore(i) == \E g \in 1..(i - 1) : ~shortDay(g)

\* The date lies inside one of the returned zones
inSomeZone(date) ==
  \E z \in 1..Len(view.missingZones) :
    view.missingZones[z].start <= date /\ date <= view.missingZones[z].end

\* The maximal runs of consecutive short expected dates, as index pairs
shortRuns ==
  LET n == Len(view.expectedDates) IN
    { r \in (1..n) \X (1..n) :
        /\ r[1] <= r[2]
        /\ \A k \in r[1]..r[2] : shortDay(k)
        /\ r[1] = 1 \/ ~shortDay(r[1] - 1)
        /\ r[2] = n \/ ~shortDay(r[2] + 1) }

\* The zone the claim assigns to a run that follows a good date
zoneOfRun(r) ==
  LET n == Len(view.expectedDates)
      goodAfter == {g \in (r[2] + 1)..n : ~shortDay(g)}
  IN [ start |-> view.expectedDates[
                   CHOOSE g \in 1..(r[1] - 1) :
                     ~shortDay(g) /\ \A h \in (g + 1)..(r[1] - 1) : shortDay(h)],
       end |-> IF goodAfter # {}
                 THEN view.expectedDates[CHOOSE g \in goodAfter : \A h \in goodAfter : g <= h]
                 ELSE view.expectedDates[n] + 1 ]

\* C6: the returned zones are exactly one zone per maximal run of short dates
\* that follows a good date, from the nearest preceding good date to the first
\* good date after the run, or to the day after the last expected date when the
\* run reaches the end; they are listed in date order and there are no others.
C6_ZonesAreTheMaximalRuns ==
  view.kind = "gaps" =>
    LET following == {r \in shortRuns : goodBefore(r[1])}
        zones == view.missingZones
    IN /\ {zones[z] : z \in 1..Len(zones)} = {zoneOfRun(r) : r \in following}
       /\ Len(zones) = Cardinality(following)
       /\ \A a, b \in 1..Len(zones) : a < b => zones[a].start < zones[b].start

\* A run closed by a good date and a later run that reaches the end of the range
C6_Witness ==
  /\ view.kind = "gaps"
  /\ Len(view.missingZones) = 2
  /\ \E i \in 1..Len(view.expectedDates) :
       ~shortDay(i) /\ view.expectedDates[i] = view.missingZones[1].end
  /\ view.missingZones[2].end = view.expectedDates[Len(view.expectedDates)] + 1

\* C7: short dates before the first good date lie in no zone, and when no
\* expected date is good no zone is returned.
C7_LeadingGapHasNoZone ==
  view.kind = "gaps" =>
    /\ (\A i \in 1..Len(view.expectedDates) : shortDay(i)) => view.missingZones = << >>
    /\ \A i \in 1..Len(view.expectedDates) :
         (shortDay(i) /\ ~goodBefore(i)) => ~inSomeZone(view.expectedDates[i])

\* The range opens with a short date, a good date follows, and a zone is returned
C7_Witness ==
  /\ view.kind = "gaps"
  /\ shortDay(1)
  /\ \E g \in 2..Len(view.expectedDates) : ~shortDay(g)
  /\ view.missingZones # << >>

\* The chart point shown for an expected date
pointOn(date) ==
  view.fullChartData[CHOOSE j \in 1..Len(view.fullChartData) :
                       view.fullChartData[j].date = date]

C9_HasDataIffEnoughReadingsAndPositiveTotal ==
  view.kind = "chart" =>
    \A i \in 1..Len(view.finalChartData) :
      view.finalChartData[i].hasData
        <=> (view.finalChartData[i].readingCount >= MinReadings
             /\ view.finalChartData[i].value > 0)

\* Consumption summed over the readings lo..hi of the input series that start
\* on a UTC date
RECURSIVE sumOnUtcDate(_, _, _)
sumOnUtcDate(date, lo, hi) ==
  IF lo > hi THEN 0
  ELSE IF lo = hi
    THEN IF utcDate(props.data[lo].interval_start) = date
           THEN props.data[lo].consumption ELSE 0
    ELSE LET mid == (lo + hi) \div 2 IN
           sumOnUtcDate(date, lo, mid) + sumOnUtcDate(date, mid + 1, hi)

\* Readings of the input series that start on a UTC date
countOnUtcDate(date) ==
  Cardinality({i \in 1..Len(props.data) : utcDate(props.data[i].interval_start) = date})

\* C10: in daily mode, whatever the viewer's timezone offset, every day
\* bucket's total is the sum of consumption over the readings that start on
\* the bucket's UTC date and its readingCount is the number of those readings.
C10_DailyBucketsFollowUtcDate ==
  (view.kind = "chart" /\ view.daysDifference > 1) =>
    \A i \in 1..Len(view.finalChartData) :
      view.finalChartData[i].readingCount > 0 =>
        /\ view.finalChartData[i].value
             = sumOnUtcDate(view.finalChartData[i].date, 1, Len(props.data))
        /\ view.finalChartData[i].readingCount
             = countOnUtcDate(view.finalChartData[i].date)

\* Consumption summed over the readings lo..hi of the previous series that
\* start on a viewer-local date
RECURSIVE previousTotalOn(_, _, _)
previousTotalOn(date, lo, hi) ==
  IF lo > hi THEN 0
  ELSE IF lo = hi
    THEN IF dateKey(props.previousPeriodData.readings[lo].interval_start, props.tz) = date
           THEN props.previousPeriodData.readings[lo].consumption ELSE 0
    ELSE LET mid == (lo + hi) \div 2 IN
           previousTotalOn(date, lo, mid) + previousTotalOn(date, mid + 1, hi)

\* The dates of the previous series, ascending
previousDates ==
  sortedKeys({dateKey(props.previousPeriodData.readings[i].interval_start, props.tz) :
                i \in 1..Len(props.previousPeriodData.readings)})

\* The positions in finalChartData of the day buckets of the current series, ascending
currentBuckets ==
  sortedKeys({i \in 1..Len(view.finalChartData) : view.finalChartData[i].readingCount > 0})

\* C17: when the previous period is shown, the i-th day bucket of the current
\* series carries the total of the i-th day of the previous series (nothing
\* when the previous series has no i-th day), whatever the numbers of days.
C17_PreviousAlignedByDayIndex ==
  (/\ view.kind = "chart"
   /\ view.daysDifference > 1
   /\ props.showPreviousPeriod
   /\ props.previousPeriodData.given) =>
    \A i \in 1..Len(currentBuckets) :
      view.finalChartData[currentBuckets[i]].previousValue
        = IF i <= Len(previousDates)
            THEN previousTotalOn(previousDates[i], 1, Len(props.previousPeriodData.readings))
            ELSE 0

(***************************************************************************)
(* Claims about rate resolution and cost (specification PriceSpec)         *)
(***************************************************************************)
\* The rate set is fixed: exactly one entry, paid by monthly direct debit
fixedRateSet ==
  /\ Len(props.rates.list) = 1
  /\ props.rates.list[1].payment_method = "direct_debit_monthly"

\* The entries whose [valid_from, valid_to) contains an instant, by position
containing(at) ==
  {i \in 1..Len(props.rates.list) :
     props.rates.list[i].valid_from <= at /\ at < props.rates.list[i].valid_to}

\* The price of the first entry in input order whose window contains the instant
firstContaining(at) ==
  IF containing(at) = {} THEN Undefined
  ELSE Whole(props.rates.list[CHOOSE i \in containing(at) :
                                \A j \in containing(at) : i <= j].value_inc_vat)

\* C11: for a rate set that is not fixed, the price resolved for a reading is
\* the value of the first entry in input order whose [valid_from, valid_to)
\* contains the reading's start, and undefined when no window contains it.
C11_PriceIsFirstContainingWindow ==
  (view.kind = "chart" /\ props.rates.given /\ ~fixedRateSet) =>
    \A i \in 1..Len(view.readingPrices) :
      view.readingPrices[i].price = firstContaining(view.readingPrices[i].at)

\* C12: one uniform price is applied to every reading whatever its timestamp
\* exactly when the rate set is fixed: a fixed set prices every reading at its
\* entry's value, and any other set leaves a reading outside every window
\* without a price.
C12_UniformPriceIffFixed ==
  (view.kind = "chart" /\ props.rates.given) =>
    \A i \in 1..Len(view.readingPrices) :
      IF fixedRateSet
        THEN view.readingPrices[i].price = Whole(props.rates.list[1].value_inc_vat)
        ELSE containing(view.readingPrices[i].at) = {}
               => view.readingPrices[i].price = Undefined

\* Consumption times the price resolved for a reading, summed over the
\* readings from i on; a reading without a price adds nothing
RECURSIVE pricedUsage(_)
pricedUsage(i) ==
  IF i > Len(view.readingPrices) THEN Whole(0)
  ELSE Add(Mul(Whole(view.readingPrices[i].consumption), orZero(view.readingPrices[i].price)),
           pricedUsage(i + 1))

\* The days of the queried window: from the UTC day of the first reading to
\* the UTC day in which the last reading ends
windowDays ==
  LET starts == {props.data[i].interval_start : i \in 1..Len(props.data)}
      first == CHOOSE t \in starts : \A u \in starts : t <= u
      last == CHOOSE t \in starts : \A u \in starts : u <= t
  IN utcDate(last) - utcDate(first) + 1

\* C14: the reported total cost is (sum over readings of consumption x the
\* price resolved for the reading) / 100 + standingCharge x numberOfDays / 100,
\* numberOfDays being the days of the queried window.
C14_TotalCostIsPricedUsagePlusStanding ==
  (view.kind = "chart" /\ view.cost.shown) =>
    view.cost.totalCost
      = Add(Div(pricedUsage(1), Whole(100)),
            Num(props.standingCharge * windowDays, 100))

\* C15: with rates supplied and no reading with a resolvable price, no price
\* figure is NaN or infinite and the usage cost is 0.
C15_NoPriceGivesZeroNotNaN ==
  (/\ view.kind = "chart"
   /\ view.cost.shown
   /\ \A i \in 1..Len(view.readingPrices) : ~truthy(view.readingPrices[i].price)) =>
    /\ view.cost.usageCost = Whole(0)
    /\ \A figure \in {view.cost.usageCost, view.cost.totalCost, view.cost.dailyCost,
                      view.cost.lowestPrice, view.cost.averagePrice} :
         figure # NaN /\ figure # Infinity

(***************************************************************************)
(* Claims about the standing charge (specification ChargeSpec)             *)
(***************************************************************************)
\* The fetched entries whose validity window contains now, by position
validNow ==
  {i \in 1..Len(props.results) :
     /\ props.results[i].valid_from <= props.now
     /\ props.results[i].valid_to = NoEnd \/ props.now < props.results[i].valid_to}

\* C13: the standing charge selected is, among the fetched entries whose
\* validity window contains now, one with the latest valid_from; when no
\* fetched entry is valid at now, none is selected.
C13_ChargeIsLatestValidNow ==
  view.kind = "standingCharge" =>
    IF validNow = {} THEN view.current = Undefined
    ELSE \E i \in validNow :
           /\ view.current = props.results[i]
           /\ \A j \in validNow : props.results[j].valid_from <= props.results[i].valid_from

(***************************************************************************)
(* Claims about the percentage change (specification ChangeSpec)           *)
(***************************************************************************)
\* C16: the percentage change of current c against previous p is
\* (c - p) / p x 100 when p >= 0.1 and no value when p < 0.1; a total compared
\* with itself gives 0 wherever p >= 0.1.
C16_PercentChangeAboveThreshold ==
  view.kind = "change" =>
    IF props.previous.num * 10 >= props.previous.den
      THEN /\ view.percentChange
                = Num((props.current.num * props.previous.den
                         - props.previous.num * props.current.den) * 100,
                      props.previous.num * props.current.den)
           /\ props.current = props.previous => view.percentChange = Whole(0)
      ELSE view.percentChange = Null

\* Previous 0.05 kWh against current 5.0 kWh: no percentage
C16_Witness ==
  /\ view.kind = "change"
  /\ props.previous = Num(5, 100)
  /\ props.current = Whole(5)
  /\ view.percentChange = Null

(***************************************************************************)
(* Claims about the previous window (specification FetchSpec)              *)
(***************************************************************************)
previousTasks == {i \in 1..Len(call.tasks) : call.tasks[i].period = "previous"}

\* C18: the previous window ends where the requested window starts
\* (previousTo = from), has the same duration and so lies immediately before
\* it; with includePreviousPeriod false no previous-period sub-fetch is issued
\* and previousPeriod of the response is null.
C18_PreviousWindowAdjacentEqualLength ==
  call.pc # "idle" =>
    IF call.includePreviousPeriod
      THEN /\ \A i \in previousTasks :
                /\ call.tasks[i].to = call.from
                /\ DateParse(call.tasks[i].to) - DateParse(call.tasks[i].from)
                     = DateParse(call.to) - DateParse(call.from)
                /\ DateParse(call.tasks[i].from) < DateParse(call.from)
           /\ call.pc = "resolved" => call.response.previousPeriod # Null
      ELSE /\ previousTasks = {}
           /\ call.pc = "resolved" => call.response.previousPeriod = Null

\* A two-day window with the previous period: its previous sub-fetch went to the
\* network for the two days before, and the call resolved
C18_Witness ==
  /\ call.pc = "resolved"
  /\ call.includePreviousPeriod
  /\ DateParse(call.to) - DateParse(call.from) = 2 * DayMs
  /\ \E i \in previousTasks :
       /\ call.tasks[i].requests = 1
       /\ call.tasks[i].from = D0
       /\ call.response.previousPeriod.importElectricity # Null

\* C20: a fetch for a utility or direction for which no meter is configured
\* fails with a configuration error delivered to the caller, and is never
\* turned into a null slot of the result of fetchAllConsumption.
C20_MissingMeterFailsTheCall ==
  /\ (call.pc # "idle" /\ meters # Types) => call.pc # "resolved"
  /\ call.pc = "resolved" =>
       \A ty \in Types \ meters : SlotOf(call.response, ty, "current") # Null

(***************************************************************************)
(* Claims about the hourly pattern (specification PatternSpec)             *)
(***************************************************************************)
\* The readings whose viewer-local hour of day is h
readingsAtHour(h) ==
  {i \in 1..Len(props.data.list) :
     \E d \in {0 - 1, 0, 1, 2} :
       LET minutes == props.data.list[i].interval_start * 30 + props.tz - d * 1440
       IN h * 60 <= minutes /\ minutes < h * 60 + 60}

RECURSIVE kWhOf(_)
kWhOf(is) ==
  IF is = {} THEN 0
  ELSE LET i == CHOOSE j \in is : TRUE
       IN props.data.list[i].consumption.num + kWhOf(is \ {i})

\* a = n / d for whole n, d > 0
isRatio(a, n, d) == a.den > 0 /\ a.num * d = n * a.den

bucketOf(h) == view.hourlyAverages[h + 1]

\* C19: the hourly pattern has exactly 24 buckets; bucket h holds the mean
\* consumption of the readings whose local hour of day is h, 0 when there are
\* none; the peak hour is the lowest-numbered hour attaining the maximum
\* average; the lowest-usage hour is the lowest-numbered hour attaining the
\* minimum among the positive averages, and there is none when no average is
\* positive.
C19_HourlyPatternMeansPeakAndLowest ==
  view.kind = "pattern" =>
    LET hours == 0..23
        positive == {h \in hours : bucketOf(h).average.num > 0}
    IN /\ Len(view.hourlyAverages) = 24
       /\ \A h \in hours :
            /\ bucketOf(h).hour = h
            /\ IF readingsAtHour(h) = {}
                 THEN bucketOf(h).average = Whole(0)
                 ELSE isRatio(bucketOf(h).average, kWhOf(readingsAtHour(h)),
                              Cardinality(readingsAtHour(h)))
       /\ \E p \in hours :
            /\ view.peakHour = bucketOf(p)
            /\ \A h \in hours : ~Less(bucketOf(p).average, bucketOf(h).average)
            /\ \A h \in hours : h < p => Less(bucketOf(h).average, bucketOf(p).average)
       /\ IF positive = {} THEN view.lowestHour = Undefined
          ELSE \E l \in positive :
                 /\ view.lowestHour = bucketOf(l)
                 /\ \A h \in positive : ~Less(bucketOf(h).average, bucketOf(l).average)
                 /\ \A h \in positive :
                      h < l => Less(bucketOf(l).average, bucketOf(h).average)

\* At UTC+5:30 readings of 0 and 4 kWh on different days share hour 5 with mean
\* 2, a third at hour 6 ties with it, and hour 5 is both peak and lowest
C19_Witness ==
  /\ view.kind = "pattern"
  /\ props.tz = 330
  /\ Len(props.data.list) = 3
  /\ Cardinality(readingsAtHour(5)) = 2
  /\ bucketOf(5).average = Whole(2)
  /\ bucketOf(6).average = Whole(2)
  /\ view.peakHour.hour = 5
  /\ view.lowestHour.hour = 5

(***************************************************************************)
(* Claims about eviction (specification Spec)                              *)
(***************************************************************************)
\* The key a read recorded in lastOp looked up
keyRead(op) ==
  IF op.op = "get" THEN op.key
  ELSE op.triple[1] \o "_" \o op.triple[2] \o "_" \o op.triple[3]

\* C23: an expired entry stays in the store until the next get/getDateRangeData
\* of its key; that read removes exactly that entry and returns null and leaves
\* every other entry, expired or not, as it was; the passing of time removes
\* nothing, and set/setDateRangeData change no entry but the one they write.
C23_ExpiredEntryLeavesOnlyOnItsRead ==
  [][ /\ now' # now => cache' = cache
      /\ sets' # sets =>
           /\ DOMAIN cache \subseteq DOMAIN cache'
           /\ Cardinality({k \in DOMAIN cache' :
                             k \notin DOMAIN cache \/ cache'[k] # cache[k]}) <= 1
      /\ lastOp'.op \in {"get", "getDateRangeData"} =>
           LET k == keyRead(lastOp') IN
             IF k \in DOMAIN cache /\ now - cache[k].timestamp > 24 * 60 * 60 * 1000
               THEN /\ lastOp'.result = Null
                    /\ DOMAIN cache' = DOMAIN cache \ {k}
                    /\ \A x \in DOMAIN cache' : cache'[x] = cache[x]
               ELSE cache' = cache
    ]_vars

\* A range read has just evicted its expired entry while another expired entry
\* is still in the store
C23_Witness ==
  /\ lastOp.op = "getDateRangeData"
  /\ lastOp.result = Null
  /\ written[lastOp.triple] # Null
  /\ now - written[lastOp.triple].at > config_ttl
  /\ keyRead(lastOp) \notin DOMAIN cache
  /\ \E k \in DOMAIN cache : now - cache[k].timestamp > config_ttl

(***************************************************************************)
(* Claims about failed sub-fetches (specification FetchSpec)               *)
(***************************************************************************)
tripleOf(task) == <<task.cacheKey, task.from, task.to>>

keyOf(task) == task.cacheKey \o "_" \o task.from \o "_" \o task.to

\* C30: a sub-fetch that fails leaves the cache unchanged: nothing is stored for
\* its (cacheKey, from, to), no other entry is touched, and the next sub-fetch
\* for the same (cacheKey, from, to) sends a new request instead of returning a
\* cached failure.
C30_FailedSubFetchLeavesCacheUnchanged ==
  /\ [](call.pc # "idle" =>
          \A i \in 1..Len(call.tasks) :
            call.tasks[i].outcome = "failed" => keyOf(call.tasks[i]) \notin DOMAIN cache)
  /\ [](lastOp.op = "called" =>
          \A i \in 1..Len(call.tasks) :
            tripleOf(call.tasks[i]) \in lastOp.failedBefore =>
              /\ call.tasks[i].cachedBefore = Null
              /\ call.tasks[i].requests = 1
              /\ call.tasks[i].outcome = "pending")
  /\ [][ (/\ call.pc = "awaiting"
          /\ call'.pc = "awaiting"
          /\ \E i \in 1..Len(call.tasks) :
               call.tasks[i].outcome # "failed" /\ call'.tasks[i].outcome = "failed")
         => cache' = cache ]_vars

\* A second call has just re-requested a window whose sub-fetch failed in the
\* first call, while the cache holds the response another sub-fetch stored
C30_Witness ==
  /\ lastOp.op = "called"
  /\ cache # EmptyMap
  /\ \E i \in 1..Len(call.tasks) :
       /\ tripleOf(call.tasks[i]) \in lastOp.failedBefore
       /\ call.tasks[i].requests = 1

(***************************************************************************)
(* Claims about the padded series (specification ChartSpec)                *)
(***************************************************************************)
\* Consumption summed over the readings lo..hi of the input series
RECURSIVE consumptionOf(_, _)
consumptionOf(lo, hi) ==
  IF lo > hi THEN 0
  ELSE IF lo = hi THEN props.data[lo].consumption
  ELSE LET mid == (lo + hi) \div 2 IN consumptionOf(lo, mid) + consumptionOf(mid + 1, hi)

\* The calendar days, as the viewer sees them, on which readings of the input start
readingDays == {dateKey(props.data[i].interval_start, props.tz) : i \in 1..Len(props.data)}

\* C29: the series produced for the chart has exactly one point per calendar
\* day from the first reading's day to the last reading's day, and the reported
\* total equals the sum of consumption over all input readings.
C29_OnePointPerDayAndTotalPreserved ==
  view.kind = "chart" =>
    LET firstDay == CHOOSE d \in readingDays : \A e \in readingDays : d <= e
        lastDay == CHOOSE d \in readingDays : \A e \in readingDays : e <= d
    IN /\ Len(view.finalChartData) = lastDay - firstDay + 1
       /\ \A i \in 1..Len(view.finalChartData) :
            view.finalChartData[i].date = firstDay + i - 1
       /\ view.total = consumptionOf(1, Len(props.data))

(***************************************************************************)
(* Claims about the provider (specification ProviderSpec)                  *)
(***************************************************************************)
\* The error state the mapping of statuses prescribes
expectedError(kind, status) ==
  CASE status = 401 -> <<"Invalid API key. Please check your credentials.">>
    [] status = 429 -> <<"Too many requests. Please try again later.">>
    [] status = 404 ->
         IF kind = "connect"
           THEN <<"Account or meter not found. Please check your details.">>
           ELSE <<"Meter not found. Please check your meter details.">>
    [] OTHER -> <<"API Error:", statusText(status)>>

\* C21: when an upstream request of connect or refreshData returns a non-2xx
\* status and the failure reaches the caller, the raised error carries that
\* status code and the error state is the invalid-credentials message for 401,
\* the rate-limited message for 429, the not-found message for 404 and a
\* generic message with the status text for any other status.
C21_StatusCarriedAndMapped ==
  lastOp.op = "failed" =>
    /\ "status" \in DOMAIN lastOp.raised
    /\ view.error = [message |-> expectedError(lastOp.kind, lastOp.status)]

\* The consumption series held in state, by type
heldSeries(type) ==
  CASE type = "import" -> view.electricityImportConsumption
    [] type = "export" -> view.electricityExportConsumption
    [] type = "gas" -> view.gasConsumption

heldPrevious(type) ==
  CASE type = "import" -> view.previousPeriodData.electricityImport
    [] type = "export" -> view.previousPeriodData.electricityExport
    [] type = "gas" -> view.previousPeriodData.gas

\* C22: once the consumption of a refresh for a window has been put into state,
\* every series held (import, export, gas and their previous-period
\* counterparts) is the response obtained for that window or is absent; a
\* series whose sub-fetch failed or whose meter is missing does not keep the
\* readings loaded for an earlier window.
C22_SeriesOfTheWindowOrAbsent ==
  lastOp.op = "consumption" =>
    \A type \in Types :
      /\ heldSeries(type) # Null =>
           (heldSeries(type).from = lastOp.from /\ heldSeries(type).to = lastOp.to)
      /\ heldPrevious(type) # Null =>
           /\ heldPrevious(type).to = lastOp.from
           /\ DateParse(lastOp.from) - DateParse(heldPrevious(type).from)
                = DateParse(lastOp.to) - DateParse(lastOp.from)

\* The cache holds an answer for every sub-fetch of the selected date range
selectedRangeFetched ==
  \A slot \in Slots :
    cachedSlot(cache, [from |-> view.dateRange[1], to |-> view.dateRange[2]], slot) # Null

\* C26: when a refresh for range R1 is in flight and a refresh for a range R2
\* selected later is started, then once both have completed the consumption
\* and previous-period state holds the data fetched for R2, the range
\* selected, whichever responses arrived last (every sub-fetch of R2 having
\* been answered).
C26_LatestSelectedRangeWins ==
  (/\ call.running = {}
   /\ view.dashboardMounted
   /\ view.api # Null
   /\ selectedRangeFetched) =>
    \A type \in Types :
      /\ heldSeries(type) # Null
      /\ heldSeries(type).from = view.dateRange[1]
      /\ heldSeries(type).to = view.dateRange[2]
      /\ heldPrevious(type) # Null
      /\ heldPrevious(type).to = view.dateRange[1]

\* C27: isLoading is true in every state in which a connect or refreshData
\* call is still in flight, also when several overlap, and it is false once
\* none is in flight.
C27_LoadingWhileAnyInFlight == view.isLoading <=> call.running # {}

\* The responses the provider holds or has cached
heldResponses ==
  {heldSeries(type) : type \in Types} \cup {view.electricityRates}
    \cup (IF view.previousPeriodData = Null THEN {}
          ELSE {heldPrevious(type) : type \in Types})

\* C25: what an instance returns from getAccountInfo, discoverMeters and its
\* consumption sub-fetches was obtained for its own account number: the
\* account info shown, and the meters every running invocation and every
\* held response was requested for, are those of the account of the instance.
C25_InstanceReturnsOwnAccountOnly ==
  /\ (view.api # Null /\ view.accountInfo # Null /\ call.running = {}) =>
       view.accountInfo.account = view.api.accountNumber
  /\ \A op \in call.running :
       op.pc \in {"account", "consumption", "tariffs"} => op.metersOf = op.account
  /\ \A op \in call.running : op.pc \in {"consumption", "tariffs"} =>
       \A slot \in Slots : op.hits[slot] # Null => op.hits[slot].metersOf = op.account

\* The request a returned slot answers: its fuel and kind of data
answers(slot, fuel, what) ==
  /\ slot.response.path[3] = fuel \o "-tariffs"
  /\ slot.response.path[5] = what
  /\ slot.response.period_from = call.from
  /\ slot.response.period_to = call.to

\* The account has a gas point whose current agreement carries a well-formed code
validGasAgreement(account) ==
  /\ account.current
  /\ findCurrentAgreement(account.gas, now) # Undefined
  /\ "productCode" \in DOMAIN extractTariffDetails(findCurrentAgreement(account.gas, now).tariff_code)

\* C24: in the result of fetchAllTariffs every slot is null or absent or the
\* response to the request of its own kind (electricity unit rates,
\* electricity standing charges, gas standing charges), and the gas standing
\* charges are returned when the account has a valid gas agreement and the
\* request for them did not fail.
C24_TariffSlotsHoldTheirOwnResponse ==
  view.state = "resolved" =>
    /\ view.electricityRates \in {Null, Undefined}
         \/ answers(view.electricityRates, "electricity", "standard-unit-rates")
    /\ view.electricityStandingCharges \in {Null, Undefined}
         \/ answers(view.electricityStandingCharges, "electricity", "standing-charges")
    /\ view.gasStandingCharges \in {Null, Undefined}
         \/ answers(view.gasStandingCharges, "gas", "standing-charges")
    /\ validGasAgreement(props.account) =>
         \/ view.gasStandingCharges \notin {Null, Undefined}
         \/ \E i \in 1..Len(call.tasks) :
              call.tasks[i].request.path[3] = "gas-tariffs" /\ call.tasks[i].state = "failed"

\* The instant at which the calendar day of an instant ends on the viewer's clock
endOfLocalDay(instant, tz) == instantAt(localDay(instant, tz), DayMs - tz * MinuteMs)

\* The first UTC midnight, as a day number, at or after an instant
midnightAtOrAfter(instant) == IF instant.ms = 0 THEN instant.day ELSE instant.day + 1

\* C28: for every selected range of calendar days and every timezone offset
\* of the viewer, the window sent upstream has from < to and its `to` is not
\* earlier than the end of the last selected day, and the previous window
\* is not empty either.
C28_WindowNonEmptyAndCoversLastDay ==
  (view.kind = "window" /\ view.windows.sent) =>
    /\ view.windows.from < view.windows.to
    /\ view.windows.to >=
         midnightAtOrAfter(endOfLocalDay(view.dateRange.to, props.tz))
    /\ view.windows.previous.from < view.windows.previous.to

====
